---- MODULE Spec2Model ----
(***************************************************************************)
(* State-machine model of the LOLVibeCoder backend: the /analyze handler,  *)
(* RepoAnalyzer (clone, directory walk, metrics, cleanup) and              *)
(* PythonIntegration (secondary analyzer process, metrics merger).         *)
(*                                                                         *)
(* Strings are modelled as sequences of text tokens: concatenation is      *)
(* sequence concatenation, String.includes / endsWith are token tests.     *)
(* Numbers of type double are modelled bit-exactly where the code rounds.  *)
(***************************************************************************)
EXTENDS Integers, Sequences, FiniteSets, TLC

\* ------------------------------------------------------------------ bounds
\* Largest totalLines drawn for the metrics-only specification.
MaxLines == 40
\* Most directory entries one walk is given, over all the directories it lists.
MaxEntries == 2

\* ------------------------------------------------------- IEEE-754 doubles
\* A positive double is 2^(-z) * (1.F) with F a 52-bit fraction kept as four
\* 13-bit limbs <<L1, L2, L3, L4>> (L1 most significant).
Limb == 2^13

\* 13 further quotient bits of rem/t and the remainder left (long division).
DivStep(rem, t) == [q |-> (rem * Limb) \div t, r |-> (rem * Limb) % t]

\* Add one unit in the last place to limbs <<L0, L1, L2, L3, L4>>, carrying.
IncLimbs(l) ==
    LET c4 == IF l[5] + 1 = Limb THEN 1 ELSE 0
        c3 == IF l[4] + c4 = Limb THEN 1 ELSE 0
        c2 == IF l[3] + c3 = Limb THEN 1 ELSE 0
        c1 == IF l[2] + c2 = Limb THEN 1 ELSE 0
    IN  << l[1] + c1, (l[2] + c2) % Limb, (l[3] + c3) % Limb,
           (l[4] + c4) % Limb, (l[5] + 1) % Limb >>

\* Smallest z with t <= c * 2^z, for 0 < c <= t.
RECURSIVE Shift(_, _)
Shift(c, t) == IF c >= t THEN 0 ELSE 1 + Shift(2 * c, t)

\* The double nearest to c / t (round to nearest, ties to even), 0 < c <= t:
\* [z, m] with value 2^(-z) * (m[1] + 0.m[2..5]) and m[1] = 1.
DoubleDiv(c, t) ==
    LET z  == Shift(c, t)
        n  == c * (2^z)
        s1 == DivStep(n - t, t)
        s2 == DivStep(s1.r, t)
        s3 == DivStep(s2.r, t)
        s4 == DivStep(s3.r, t)
        m  == << 1, s1.q, s2.q, s3.q, s4.q >>
        up == \/ 2 * s4.r > t
              \/ 2 * s4.r = t /\ s4.q % 2 = 1
    IN  [z |-> z, m |-> IF up THEN IncLimbs(m) ELSE m]

\* The exact product of the 53-bit significand m by 100, as limbs
\* <<P0, P1, P2, P3, P4>> with P0 the integer part (100..200).
Times100(m) ==
    LET t4 == m[5] * 100
        t3 == m[4] * 100 + t4 \div Limb
        t2 == m[3] * 100 + t3 \div Limb
        t1 == m[2] * 100 + t2 \div Limb
        t0 == m[1] * 100 + t1 \div Limb
    IN  << t0, t1 % Limb, t2 % Limb, t3 % Limb, t4 % Limb >>

\* Round the product p back to 53 significant bits (ties to even): the
\* low s bits are dropped, s = 6 when P0 < 128 and 7 otherwise.
RoundProduct(p) ==
    LET s    == IF p[1] < 128 THEN 6 ELSE 7
        unit == 2^s
        low  == p[5] % unit
        kept == p[5] - low
        odd  == (kept \div unit) % 2 = 1
        up   == low > unit \div 2 \/ (low = unit \div 2 /\ odd)
        raw  == kept + (IF up THEN unit ELSE 0)
        c4   == raw \div Limb
        c3   == (p[4] + c4) \div Limb
        c2   == (p[3] + c3) \div Limb
        c1   == (p[2] + c2) \div Limb
    IN  << p[1] + c1, (p[2] + c2) % Limb, (p[3] + c3) % Limb,
           (p[4] + c4) % Limb, raw % Limb >>

\* Math.round(x) for x = 2^(-z) * (p[1] + 0.p[2..5]): floor(x + 0.5).
MathRound(z, p) ==
    LET whole == p[1] \div (2^z)
        half  == IF z = 0 THEN p[2] >= Limb \div 2
                 ELSE p[1] % (2^z) >= 2^(z - 1)
    IN  whole + (IF half THEN 1 ELSE 0)

\* Math.round((commentLines / totalLines) * 100) in double arithmetic.
RoundedPercent(commentLines, totalLines) ==
    IF commentLines = 0 THEN 0
    ELSE LET d == DoubleDiv(commentLines, totalLines)
         IN  MathRound(d.z, RoundProduct(Times100(d.m)))

\* ----------------------------------------------------------------- strings
\* JavaScript strings are TLA+ strings; the String and RegExp operations the
\* code calls are computed character by character.
Max(a, b) == IF a >= b THEN a ELSE b
Min(a, b) == IF a <= b THEN a ELSE b

Least(S) == CHOOSE x \in S : \A y \in S : x <= y
Greatest(S) == CHOOSE x \in S : \A y \in S : x >= y

\* The k-th smallest element of a set of numbers.
Nth(S, k) == CHOOSE x \in S : Cardinality({y \in S : y < x}) = k - 1

\* String.prototype.charAt: "" outside the string.
CharAt(s, i) == IF 1 <= i /\ i <= Len(s) THEN SubSeq(s, i, i) ELSE ""

StartsWithAt(s, i, p) ==
    i >= 1 /\ i + Len(p) - 1 <= Len(s) /\ SubSeq(s, i, i + Len(p) - 1) = p

StartsWith(s, p) == StartsWithAt(s, 1, p)

EndsWith(s, p) == Len(s) >= Len(p) /\ StartsWithAt(s, Len(s) - Len(p) + 1, p)

Includes(s, p) == \E i \in 1..(Len(s) - Len(p) + 1) : StartsWithAt(s, i, p)

\* Index of the first occurrence of the one-character string c in s at or
\* after position i, or Len(s) + 1 when there is none.
IndexFrom(s, c, i) ==
    Least({j \in i..Len(s) : CharAt(s, j) = c} \cup {Len(s) + 1})

LastIndexOf(s, c, j) ==
    Greatest({k \in 1..j : CharAt(s, k) = c} \cup {0})

\* s.split(c) for a one-character separator c.
Split(s, c) ==
    LET at  == {j \in 1..Len(s) : CharAt(s, j) = c}
        n   == Cardinality(at)
        cut == [k \in 0..(n + 1) |->
                   IF k = 0 THEN 0 ELSE IF k = n + 1 THEN Len(s) + 1 ELSE Nth(at, k)]
    IN  [k \in 1..(n + 1) |-> SubSeq(s, cut[k - 1] + 1, cut[k] - 1)]

\* The concatenation of F(1), ..., F(n), halving the range.
Concat(F(_), n) ==
    LET cat[r \in (1..(n + 1)) \X (0..n)] ==
            IF r[1] > r[2] THEN ""
            ELSE IF r[1] = r[2] THEN F(r[1])
            ELSE LET mid == (r[1] + r[2]) \div 2
                 IN  cat[<< r[1], mid >>] \o cat[<< mid + 1, r[2] >>]
    IN  cat[<< 1, n >>]

UpperLetters == "ABCDEFGHIJKLMNOPQRSTUVWXYZ"
LowerLetters == "abcdefghijklmnopqrstuvwxyz"
Digits == "0123456789"

LowerOf == [i \in 1..26 |-> CharAt(LowerLetters, i)]
UpperSet == {CharAt(UpperLetters, i) : i \in 1..26}
UpperIndex == [c \in UpperSet |-> CHOOSE i \in 1..26 : CharAt(UpperLetters, i) = c]

LowerChar(c) == IF c \in UpperSet THEN LowerOf[UpperIndex[c]] ELSE c

\* String.prototype.toLowerCase (ASCII).
toLowerCase(s) == Concat(LAMBDA k : LowerChar(CharAt(s, k)), Len(s))

\* The regular-expression classes \s and \w on one character.
SpaceChars == {" ", "\t", "\r", "\n", "\f"}
WordChars ==
    UpperSet \cup {CharAt(LowerLetters, i) : i \in 1..26}
    \cup {CharAt(Digits, i) : i \in 1..10} \cup {"_"}

IsSpace(c) == c \in SpaceChars
IsWordChar(c) == c \in WordChars

\* First position at or after i whose character is not whitespace.
SkipSpace(s, i) ==
    Least({j \in i..Len(s) : ~IsSpace(CharAt(s, j))} \cup {Max(i, Len(s) + 1)})

\* First position at or after i whose character is not a word character.
SkipWord(s, i) ==
    Least({j \in i..Len(s) : ~IsWordChar(CharAt(s, j))} \cup {Max(i, Len(s) + 1)})

\* Last position at or before j whose character is not whitespace.
BackSpace(s, j) ==
    Greatest({k \in 1..j : ~IsSpace(CharAt(s, k))} \cup {0})

\* String.prototype.trim.
trim(s) == SubSeq(s, SkipSpace(s, 1), BackSpace(s, Len(s)))

\* Length of the match of /^(\s*)/ : the leading whitespace of a line.
LeadingSpace(line) == SkipSpace(line, 1) - 1

\* The maximal runs of word characters of s, in order.
Words(s) ==
    LET starts == {j \in 1..Len(s) :
                      IsWordChar(CharAt(s, j)) /\ ~IsWordChar(CharAt(s, j - 1))}
    IN  [k \in 1..Cardinality(starts) |->
            LET a == Nth(starts, k) IN SubSeq(s, a, SkipWord(s, a) - 1)]

\* ---------------------------------------------------------- request input
\* req.query.repo: absent, or a string.  A string is given with the outcome
\* of `new URL(repo)`: whether it parses, and the hostname and pathname the
\* URL object then has.
NoRepo == [given |-> FALSE, text |-> "", parses |-> FALSE, hostname |-> "", pathname |-> ""]

UrlInput(text, hostname, pathname) ==
    [given |-> TRUE, text |-> text, parses |-> TRUE, hostname |-> hostname, pathname |-> pathname]

RepoInputs ==
    { NoRepo,
      [given |-> TRUE, text |-> "not a url", parses |-> FALSE, hostname |-> "", pathname |-> ""],
      UrlInput("https://gitlab.com/u/r", "gitlab.com", "/u/r"),
      UrlInput("https://github.com/u", "github.com", "/u"),
      UrlInput("https://github.com/u/r.git", "github.com", "/u/r.git"),
      UrlInput("https://github.com/u/r", "github.com", "/u/r"),
      UrlInput("https://www.github.com/u/r/tree/feature-x", "www.github.com", "/u/r/tree/feature-x") }

\* urlObj.pathname.split('/').filter(part => part.length > 0)
PathParts(url) == SelectSeq(Split(url.pathname, "/"), LAMBDA part : Len(part) > 0)

\* Faulty variant of isValidGitHubUrl: the hostname is not compared.
isValidGitHubUrlAnyHost(url) ==
    IF ~url.parses THEN FALSE
    ELSE LET pathParts == SelectSeq(Split(url.pathname, "/"), LAMBDA part : Len(part) > 0)
         IN  Len(pathParts) >= 2 /\ ~EndsWith(pathParts[2], ".git")

isValidGitHubUrl(url) ==
    IF ~url.parses THEN FALSE
    ELSE LET isValidHost == url.hostname = "github.com" \/ url.hostname = "www.github.com"
             pathParts   == PathParts(url)
         IN  IF ~isValidHost THEN FALSE
             ELSE Len(pathParts) >= 2 /\ ~EndsWith(pathParts[2], ".git")

\* branch is "" for JavaScript's null (no branch in the URL).
\* With fewer than two path segments repo is undefined, repo.endsWith throws
\* and the catch returns the text as it came.
extractRepoInfo(url) ==
    IF ~url.parses \/ Len(PathParts(url)) < 2 THEN [baseUrl |-> url.text, branch |-> ""]
    ELSE LET pathParts == PathParts(url)
             repo      == pathParts[2]
             cleanRepo == IF EndsWith(repo, ".git")
                          THEN SubSeq(repo, 1, Len(repo) - 4) ELSE repo
         IN  [baseUrl |-> "https://github.com/" \o pathParts[1] \o "/" \o cleanRepo,
              branch  |-> IF Len(pathParts) >= 4
                             /\ (pathParts[3] = "tree" \/ pathParts[3] = "blob")
                          THEN pathParts[4] ELSE ""]

\* Faulty variant of ErrorStatus: the clone failure is not told apart.
ErrorStatusWithoutNotFound(message) ==
    IF Includes(message, "Invalid GitHub URL")
       \/ Includes(message, "Missing required parameter")
    THEN 400
    ELSE 500

\* The status code the handler's catch block picks for an error message.
ErrorStatus(message) ==
    IF Includes(message, "Invalid GitHub URL")
       \/ Includes(message, "Missing required parameter")
    THEN 400
    ELSE IF Includes(message, "Failed to clone repository") THEN 404
    ELSE 500

\* ----------------------------------------------------------- file classes
\* path.basename / path.extname of a "/"-separated path.
basename(p) == SubSeq(p, LastIndexOf(p, "/", Len(p)) + 1, Len(p))

extname(p) ==
    LET base == basename(p)
        dot  == LastIndexOf(base, ".", Len(base))
    IN  IF dot <= 1 THEN "" ELSE SubSeq(base, dot, Len(base))

testPatterns == << "test", "spec", "__tests__", ".test.", ".spec." >>

\* Each pattern is a case-insensitive literal: pattern.test(x) is a
\* substring test on the lower-cased text.
isTestFile(fileName, filePath) ==
    LET name == toLowerCase(fileName)
        path == toLowerCase(filePath)
    IN  \E k \in 1..Len(testPatterns) :
            Includes(name, testPatterns[k]) \/ Includes(path, testPatterns[k])

textExtensions ==
    { ".js", ".jsx", ".ts", ".tsx", ".py", ".java", ".cpp", ".c", ".h",
      ".cs", ".php", ".rb", ".go", ".rs", ".swift", ".kt", ".scala",
      ".html", ".css", ".scss", ".sass", ".less", ".vue", ".svelte",
      ".json", ".xml", ".yaml", ".yml", ".md", ".txt", ".sh", ".bat",
      ".ps1", ".sql", ".r", ".m", ".scm", ".lisp", ".clj", ".hs",
      ".ml", ".fs", ".vb", ".dart", ".elm", ".ex", ".exs", ".erl" }

isTextFile(ext) == ext \in textExtensions

mainCodeExtensions ==
    { ".js", ".jsx", ".ts", ".tsx", ".py", ".java", ".cpp", ".c", ".h",
      ".cs", ".php", ".rb", ".go", ".rs", ".swift", ".kt", ".scala",
      ".vue", ".svelte", ".dart", ".elm", ".ex", ".exs", ".erl" }

isMainCodeFile(ext) == ext \in mainCodeExtensions

\* Whether one trimmed, non-empty line counts as a comment for ext.
IsCommentLine(trimmed, ext) ==
    IF ext \in {".js", ".jsx", ".ts", ".tsx"}
    THEN StartsWith(trimmed, "//") \/ StartsWith(trimmed, "/*") \/ StartsWith(trimmed, "*")
    ELSE IF ext = ".py" THEN StartsWith(trimmed, "#")
    ELSE IF ext \in {".java", ".cpp", ".c", ".h", ".cs"}
    THEN StartsWith(trimmed, "//") \/ StartsWith(trimmed, "/*") \/ StartsWith(trimmed, "*")
    ELSE IF ext \in {".html", ".xml"} THEN StartsWith(trimmed, "<!--")
    ELSE IF ext \in {".css", ".scss", ".sass"}
    THEN StartsWith(trimmed, "/*") \/ StartsWith(trimmed, "*")
    ELSE IF ext \in {".sh", ".bat", ".ps1"} THEN StartsWith(trimmed, "#")
    ELSE FALSE

countCommentLines(content, ext) ==
    LET lines == Split(content, "\n")
    IN  Cardinality({k \in 1..Len(lines) :
                        LET trimmed == trim(lines[k])
                        IN  trimmed # "" /\ IsCommentLine(trimmed, ext)})

\* ------------------------------------------------------- pattern detector
\* /\b(data|result|value|item|temp|tempVar|tempValue|tempData)\b/g
genericWords1 == { "data", "result", "value", "item", "temp", "tempVar", "tempValue", "tempData" }
\* /\b(user|users|item|items|data|datas|list|lists)\b/g
genericWords2 == { "user", "users", "item", "items", "data", "datas", "list", "lists" }
\* /\b(handle|process|execute|perform|do|run)\w*\b/g
genericPrefixes == { "handle", "process", "execute", "perform", "do", "run" }

\* Matches of the three generic-name expressions that one word gives.
GenericMatches(word) ==
    (IF word \in genericWords1 THEN 1 ELSE 0)
    + (IF word \in genericWords2 THEN 1 ELSE 0)
    + (IF \E p \in genericPrefixes : StartsWith(word, p) THEN 1 ELSE 0)

\* The matches of all three expressions in content, summed.
genericCount(content) ==
    LET words == Words(content)
    IN  Cardinality({m \in (1..Len(words)) \X (1..3) : m[2] <= GenericMatches(words[m[1]])})

\* After the keyword at i: \s+\w+\s* ; the position reached, or 0.
AfterKeywordName(s, i, keyword) ==
    IF ~StartsWithAt(s, i, keyword) THEN 0
    ELSE LET a == i + Len(keyword)
             b == SkipSpace(s, a)
             c == SkipWord(s, b)
         IN  IF b > a /\ c > b THEN SkipSpace(s, c) ELSE 0

\* \{[\s\S]*?\} from position i: the position after the first "}", or 0.
LazyBlock(s, i) ==
    IF i >= 1 /\ CharAt(s, i) = "{"
    THEN LET k == IndexFrom(s, "}", i + 1) IN IF k > Len(s) THEN 0 ELSE k + 1
    ELSE 0

\* The end (position after it) of a match of boilerplate expression `kind`
\* starting exactly at i, or 0 when there is none.
\*   "function": /function\s+\w+\s*\(\s*\)\s*\{[\s\S]*?\}/
\*   "class":    /class\s+\w+\s*\{[\s\S]*?\}/
\*   "arrow":    /const\s+\w+\s*=\s*\([^)]*\)\s*=>\s*\{[\s\S]*?\}/
MatchAt(kind, s, i) ==
    IF kind = "function"
    THEN LET a == AfterKeywordName(s, i, "function")
             b == SkipSpace(s, a + 1)
         IN  IF a > 0 /\ CharAt(s, a) = "(" /\ CharAt(s, b) = ")"
             THEN LazyBlock(s, SkipSpace(s, b + 1)) ELSE 0
    ELSE IF kind = "class"
    THEN LET a == AfterKeywordName(s, i, "class")
         IN  IF a > 0 THEN LazyBlock(s, a) ELSE 0
    ELSE LET a == AfterKeywordName(s, i, "const")
             b == SkipSpace(s, a + 1)
             c == IndexFrom(s, ")", b + 1)
             d == SkipSpace(s, c + 1)
         IN  IF a > 0 /\ CharAt(s, a) = "=" /\ CharAt(s, b) = "("
                /\ c <= Len(s) /\ StartsWithAt(s, d, "=>")
             THEN LazyBlock(s, SkipSpace(s, d + 2)) ELSE 0

\* content.match(/.../g).length: non-overlapping matches, leftmost first.
CountMatches(kind, s) ==
    LET starts == {j \in 1..Len(s) : MatchAt(kind, s, j) > 0}
        count[i \in 1..(Len(s) + 2)] ==
            LET rest == {j \in starts : j >= i}
            IN  IF rest = {} THEN 0
                ELSE 1 + count[MatchAt(kind, s, Least(rest))]
    IN  count[1]

boilerplateCount(content) ==
    CountMatches("function", content) + CountMatches("class", content)
    + CountMatches("arrow", content)

\* lines.filter(line => line.trim().length > 0)
NonBlank(lines) == SelectSeq(lines, LAMBDA line : Len(trim(line)) > 0)

\* A ratio is kept as numerator and denominator; r > p/q is r.num * q > p * r.den.
RatioAbove(r, p, q) == r.num * q > p * r.den

\* Faulty variant of checkIndentationConsistency: no non-empty line gives 0.
checkIndentationConsistencyZeroWhenEmpty(lines) ==
    LET kept        == NonBlank(lines)
        indentation == [k \in 1..Len(kept) |-> LeadingSpace(kept[k])]
        spaces      == Cardinality({k \in 1..Len(kept) : indentation[k] % 4 = 0})
        tabs        == Cardinality({k \in 1..Len(kept) : indentation[k] % 1 = 0 /\ indentation[k] > 0})
    IN  IF Len(kept) = 0 THEN [num |-> 0, den |-> 1]
        ELSE [num |-> Max(spaces, tabs), den |-> Len(kept)]

checkIndentationConsistency(lines) ==
    LET kept        == NonBlank(lines)
        indentation == [k \in 1..Len(kept) |-> LeadingSpace(kept[k])]
        spaces      == Cardinality({k \in 1..Len(kept) : indentation[k] % 4 = 0})
        tabs        == Cardinality({k \in 1..Len(kept) : indentation[k] % 1 = 0 /\ indentation[k] > 0})
    IN  IF Len(kept) = 0 THEN [num |-> 1, den |-> 1]
        ELSE [num |-> Max(spaces, tabs), den |-> Len(kept)]

\* line.trim().replace(/\s+/g, ' ')
Normalized(line) ==
    LET t == trim(line)
    IN  Concat(LAMBDA k : IF ~IsSpace(CharAt(t, k)) THEN CharAt(t, k)
                          ELSE IF IsSpace(CharAt(t, k - 1)) THEN "" ELSE " ",
               Len(t))

detectRepetitivePatterns(content) ==
    LET lines      == NonBlank(Split(content, "\n"))
        lineCounts == [n \in {Normalized(lines[k]) : k \in 1..Len(lines)} |->
                          Cardinality({k \in 1..Len(lines) : Normalized(lines[k]) = n})]
        repeatedLines == Cardinality({n \in DOMAIN lineCounts : lineCounts[n] > 1})
    IN  IF Len(lines) < 5 THEN [num |-> 0, den |-> 1]
        ELSE [num |-> repeatedLines, den |-> Len(lines)]

\* Faulty variant of analyzeCodeContent: genericNames grows by the number of
\* matches.
analyzeCodeContentPerMatch(content, aiPatterns) ==
    LET lines == Split(content, "\n")
    IN  [genericNames |-> aiPatterns.genericNames + genericCount(content),
         perfectFormatting |->
             aiPatterns.perfectFormatting
             + (IF RatioAbove(checkIndentationConsistency(lines), 95, 100) THEN 1 ELSE 0),
         boilerplateCode |->
             aiPatterns.boilerplateCode + (IF boilerplateCount(content) > 3 THEN 1 ELSE 0),
         repetitivePatterns |->
             aiPatterns.repetitivePatterns
             + (IF RatioAbove(detectRepetitivePatterns(content), 3, 10) THEN 1 ELSE 0)]

\* The four AiPatternCounters after one more text file.
analyzeCodeContent(content, aiPatterns) ==
    LET lines == Split(content, "\n")
    IN  [genericNames |->
             aiPatterns.genericNames + (IF genericCount(content) > 5 THEN 1 ELSE 0),
         perfectFormatting |->
             aiPatterns.perfectFormatting
             + (IF RatioAbove(checkIndentationConsistency(lines), 95, 100) THEN 1 ELSE 0),
         boilerplateCode |->
             aiPatterns.boilerplateCode + (IF boilerplateCount(content) > 3 THEN 1 ELSE 0),
         repetitivePatterns |->
             aiPatterns.repetitivePatterns
             + (IF RatioAbove(detectRepetitivePatterns(content), 3, 10) THEN 1 ELSE 0)]

\* Faulty variant of extractCodeSample: the sample is never cut at 2000
\* characters.
extractCodeSampleUncut(content) ==
    LET breaks == {j \in 1..Len(content) : CharAt(content, j) = "\n"}
        sample == IF Cardinality(breaks) < 50 THEN content
                  ELSE SubSeq(content, 1, Nth(breaks, 50) - 1)
    IN  IF Len(trim(sample)) > 100 THEN sample ELSE ""

\* The sample of a file, or "" for null.  lines.slice(0, 50).join('\n') is
\* the content up to, not including, its 50th line break.
extractCodeSample(content) ==
    LET breaks == {j \in 1..Len(content) : CharAt(content, j) = "\n"}
        joined == IF Cardinality(breaks) < 50 THEN content
                  ELSE SubSeq(content, 1, Nth(breaks, 50) - 1)
        sample == IF Len(joined) > 2000 THEN SubSeq(joined, 1, 2000) \o "..." ELSE joined
    IN  IF Len(trim(sample)) > 100 THEN sample ELSE ""
\* ------------------------------------------------------------ RepoAnalyzer
\* The accumulator computeMetrics creates before the walk.
EmptyStats ==
    [totalFiles |-> 0, totalLines |-> 0, commentLines |-> 0,
     hasReadme |-> FALSE, hasTests |-> FALSE,
     fileTypes |-> << >>, codeSamples |-> << >>,
     aiPatterns |-> [genericNames |-> 0, perfectFormatting |-> 0,
                     boilerplateCode |-> 0, repetitivePatterns |-> 0]]

\* Faulty variant of CountType: the count is set to one, not raised by one.
CountTypeOnce(fileTypes, ext) ==
    [e \in DOMAIN fileTypes \cup {ext} |-> IF e = ext THEN 1 ELSE fileTypes[e]]

\* stats.fileTypes[ext] = (stats.fileTypes[ext] || 0) + 1
CountType(fileTypes, ext) ==
    [e \in DOMAIN fileTypes \cup {ext} |->
        IF e = ext THEN (IF e \in DOMAIN fileTypes THEN fileTypes[e] ELSE 0) + 1
        ELSE fileTypes[e]]

\* What analyzeFile derives from the path of a file.
classify(filePath) ==
    LET fileName == basename(filePath)
        ext      == toLowerCase(extname(filePath))
    IN  [fileName |-> fileName,
         ext      |-> ext,
         readme   |-> StartsWith(toLowerCase(fileName), "readme"),
         test     |-> isTestFile(fileName, filePath),
         text     |-> isTextFile(ext),
         main     |-> isMainCodeFile(ext)]

\* Faulty variant of measure: only the lines that are not blank are counted.
measureNonBlankLines(content, ext) ==
    [lines    |-> Len(NonBlank(Split(content, "\n"))),
     comments |-> countCommentLines(content, ext),
     sample   |-> extractCodeSample(content),
     trips    |-> analyzeCodeContent(content, EmptyStats.aiPatterns)]

\* What analyzeFile derives from the content of a text file: its line count,
\* its comment lines, its sample, and the counters analyzeCodeContent leaves when it starts
\* from zero.
measure(content, ext) ==
    [lines    |-> Len(Split(content, "\n")),
     comments |-> countCommentLines(content, ext),
     sample   |-> extractCodeSample(content),
     trips    |-> analyzeCodeContent(content, EmptyStats.aiPatterns)]

\* Faulty variant of skipped: only hidden names are passed over.
skippedHiddenOnly(item) == StartsWith(item, ".")

\* Whether analyzeDirectory skips an entry by its name.
skipped(item) ==
    StartsWith(item, ".") \/ item \in {"node_modules", "dist", "build", ".git"}

\* ------------------------------------------------------------- file system
\* this.tempDir, and the names createTempPath may draw
\* (repo_<Date.now()>_<Math.random().toString(36).substring(7)>).
tempDir == "/srv/backend/temp"
TempNames == { "repo_1700000000000_k3x9qa" }

\* The names the walk-only executions draw: the one above, and the one that
\* Math.random().toString(36) = "0.4fzyolatest" gives.
ScratchNames == TempNames \cup { "repo_1700000000000_latest" }

\* File contents that fs.readFile may return.
ReadmeText == "# Demo\n\nUsage notes\n"
SmallJs == "// helper\nconst total = 1;\n"
LargeJs ==
    "// Compute totals for every item\nfunction run() {\n    const data = process(items);\n    return handle(data, user);\n}\n\nmodule.exports = run;\n"

\* Directory entries that fs.readdir may list.
Entries ==
    { [name |-> "README.md",    isDir |-> FALSE, content |-> ReadmeText],
      [name |-> "index.js",     isDir |-> FALSE, content |-> LargeJs],
      [name |-> "util.test.js", isDir |-> FALSE, content |-> SmallJs],
      [name |-> "logo.png",     isDir |-> FALSE, content |-> ""],
      [name |-> ".env",         isDir |-> FALSE, content |-> ""],
      [name |-> "node_modules", isDir |-> TRUE,  content |-> ""],
      [name |-> "src",          isDir |-> TRUE,  content |-> ""] }

\* The files of a second repository: small texts on either side of the
\* pattern detector's thresholds.
SampleEntries ==
    { [name |-> "five.js",     isDir |-> FALSE, content |-> "data item result\n"],
      [name |-> "six.js",      isDir |-> FALSE, content |-> "data item result run\n"],
      [name |-> "eleven.js",   isDir |-> FALSE,
       content |-> "data item result run data item value\n"],
      [name |-> "tensame.js",  isDir |-> FALSE,
       content |-> "a;\na;\na;\na;\na;\na;\na;\na;\na;\na;"],
      [name |-> "foursame.js", isDir |-> FALSE, content |-> "a;\na;\na;\na;\n"],
      [name |-> "twopairs.js", isDir |-> FALSE,
       content |-> "a = 1;\n  a  =  1;\nb;\nb;\nc;\n"],
      [name |-> "onepair.js",  isDir |-> FALSE, content |-> "a;\na;\nb;\nc;\nd;\ne;\n"],
      [name |-> "twospaces.js", isDir |-> FALSE, content |-> "  a;\n  b;\n  c;\n"],
      [name |-> "onetab.py",   isDir |-> FALSE, content |-> "\ta;\n\tb;\n"],
      [name |-> "half.js",     isDir |-> FALSE, content |-> "a;\n  b;\nc;\n  d;\n"],
      [name |-> "nineteen.js", isDir |-> FALSE,
       content |-> "a;\nb;\nc;\nd;\ne;\nf;\ng;\nh;\ni;\nj;\nk;\nl;\nm;\nn;\no;\np;\nq;\nr;\ns;\n  t;"],
      [name |-> "classes.js",  isDir |-> FALSE,
       content |-> "class A {}\nclass B {}\nclass C {}\nclass D {}\n"],
      [name |-> "empty.js",    isDir |-> FALSE, content |-> ""],
      [name |-> "blank.txt",   isDir |-> FALSE, content |-> "\n   \n\t\n"],
      [name |-> "six.png",     isDir |-> FALSE, content |-> "data item result run\n"],
      [name |-> "README",      isDir |-> FALSE, content |-> "data item result run\n"],
      [name |-> "banner.js",   isDir |-> FALSE, content |-> "// a\n/* b */"],
      [name |-> "spec.svg",    isDir |-> FALSE, content |-> "a;\na;\na;\na;\n"] }

\* The files of a third repository: texts on either side of the limits of
\* extractCodeSample.  long.js has 30 banner lines of 80 characters (2400 in
\* all),
\* lines.js 60 lines, sparse.js two statements 120 blanks apart, padded.js
\* one statement after 150 blanks.
LongEntries ==
    { [name |-> "long.js",   isDir |-> FALSE,
       content |-> Concat(LAMBDA k :
           "/* ========================================================================= */\n", 30)],
      [name |-> "lines.js",  isDir |-> FALSE, content |-> Concat(LAMBDA k : "x = 1;\n", 60)],
      [name |-> "sparse.js", isDir |-> FALSE,
       content |-> "a;" \o Concat(LAMBDA k : " ", 120) \o "b;"],
      [name |-> "padded.js", isDir |-> FALSE, content |-> Concat(LAMBDA k : " ", 150) \o "a;"],
      [name |-> "short.js",  isDir |-> FALSE, content |-> SmallJs],
      [name |-> "notes.md",  isDir |-> FALSE, content |-> LargeJs] }

\* What the clone of a repository puts under the scratch path: the entries
\* fs.readdir may list there.
SampleRepo == UrlInput("https://github.com/u/samples", "github.com", "/u/samples")
LongRepo == UrlInput("https://github.com/u/long", "github.com", "/u/long")
Repository(url) ==
    IF url = SampleRepo THEN SampleEntries
    ELSE IF url = LongRepo THEN LongEntries
    ELSE Entries
AllEntries == Entries \cup SampleEntries \cup LongEntries

\* extractRepoInfo, tabulated over the requests.
RepoInfo == [r \in RepoInputs \cup {SampleRepo, LongRepo} |-> extractRepoInfo(r)]


\* The directories a walk can reach and the files it can find in them.
Directories ==
    LET below[d \in 0..MaxEntries] ==
            IF d = 0 THEN {tempDir \o "/" \o name : name \in ScratchNames}
            ELSE {p \o "/" \o e.name : p \in below[d - 1],
                                       e \in {x \in AllEntries : x.isDir /\ ~skipped(x.name)}}
    IN  UNION {below[d] : d \in 0..MaxEntries}

FilePaths == {p \o "/" \o e.name : p \in Directories, e \in {x \in AllEntries : ~x.isDir}}

\* What analyzeFile derives from a path alone and from a content alone,
\* tabulated over the paths and contents above.
Classified == [p \in FilePaths |-> classify(p)]
Measured ==
    [k \in {<< e.content, toLowerCase(extname(e.name)) >> : e \in {x \in AllEntries : ~x.isDir}}
        |-> measure(k[1], k[2])]
\* ------------------------------------------------------------- accumulation
\* Faulty variant of Accumulated: the file is counted before it is read.
AccumulatedCountingUnread(f, m, stats, readOk) ==
    LET flagged == [stats EXCEPT
                      !.hasReadme = @ \/ f.readme,
                      !.hasTests  = @ \/ f.test,
                      !.fileTypes = IF f.ext # "" THEN CountType(@, f.ext) ELSE @]
    IN  IF ~f.text THEN flagged
        ELSE IF ~readOk THEN [flagged EXCEPT !.totalFiles = @ + 1]
        ELSE [flagged EXCEPT
                !.totalFiles   = @ + 1,
                !.totalLines   = @ + m.lines,
                !.commentLines = @ + m.comments,
                !.aiPatterns   = [c \in DOMAIN @ |-> @[c] + m.trips[c]],
                !.codeSamples  =
                    IF f.main /\ Len(@) < 20 /\ m.sample # ""
                    THEN Append(@, [file |-> f.fileName, extension |-> f.ext,
                                    sample |-> m.sample, lines |-> m.lines])
                    ELSE @]

\* The accumulator after analyzeFile(filePath, stats), from the facts f of
\* the path and m of the content.  readOk tells whether fs.readFile succeeds;
\* a failed read throws after the flags and fileTypes were updated, and is
\* swallowed.
Accumulated(f, m, stats, readOk) ==
    LET flagged == [stats EXCEPT
                      !.hasReadme = @ \/ f.readme,
                      !.hasTests  = @ \/ f.test,
                      !.fileTypes = IF f.ext # "" THEN CountType(@, f.ext) ELSE @]
    IN  IF ~f.text \/ ~readOk THEN flagged
        ELSE [flagged EXCEPT
                !.totalFiles   = @ + 1,
                !.totalLines   = @ + m.lines,
                !.commentLines = @ + m.comments,
                !.aiPatterns   = [c \in DOMAIN @ |-> @[c] + m.trips[c]],
                !.codeSamples  =
                    IF f.main /\ Len(@) < 20 /\ m.sample # ""
                    THEN Append(@, [file |-> f.fileName, extension |-> f.ext,
                                    sample |-> m.sample, lines |-> m.lines])
                    ELSE @]

Classify(f, stats, readOk, content) ==
    Accumulated(f, Measured[<< content, f.ext >>], stats, readOk)

\* content is what fs.readFile returns when it succeeds.
analyzeFile(filePath, stats, readOk, content) ==
    Classify(Classified[filePath], stats, readOk, content)

\* commentsRatio is kept in hundredths: Math.round(ratio * 100), the final
\* "/ 100" giving the double nearest to that many hundredths.
commentsRatio(stats) ==
    IF stats.totalLines > 0 THEN RoundedPercent(stats.commentLines, stats.totalLines)
    ELSE 0

\* The object computeMetrics returns, with usedBranch set by analyzeRepository.
computeMetrics(stats, usedBranch) ==
    [totalFiles    |-> stats.totalFiles,
     totalLines    |-> stats.totalLines,
     commentLines  |-> stats.commentLines,
     commentsRatio |-> commentsRatio(stats),
     hasReadme     |-> stats.hasReadme,
     hasTests      |-> stats.hasTests,
     fileTypes     |-> stats.fileTypes,
     codeSamples   |-> SubSeq(stats.codeSamples, 1, Min(10, Len(stats.codeSamples))),
     aiPatterns    |-> stats.aiPatterns,
     usedBranch    |-> usedBranch]

\* The clone attempts cloneRepo makes, in order, while none succeeds:
\* the requested branch if one was given, the default branches, then the
\* clone without --branch (named "default", as usedBranch names it).
branches == << "main", "master", "develop", "dev", "trunk" >>

\* Faulty variant of cloneAttempts: the default branches come before the
\* requested one.
cloneAttemptsDefaultsFirst(specificBranch) ==
    << "main", "master", "develop", "dev", "trunk" >>
    \o (IF specificBranch # "" THEN << specificBranch >> ELSE << >>)
    \o << "default" >>

cloneAttempts(specificBranch) ==
    (IF specificBranch # "" THEN << specificBranch >> ELSE << >>)
    \o branches \o << "default" >>

\* ------------------------------------------------------ PythonIntegration
\* JSON.parse on the record lines the analyzer process may print; on any
\* other text JSON.parse throws a SyntaxError.
FullRecordText ==
    "{\"comments_score\": 6, \"naming_score\": 6, \"tests_score\": 10, \"examples_score\": 8, \"highlights\": [\"Test files found\", \"Good documentation\"]}"
PartialRecordText == "{\"naming_score\": 3, \"highlights\": [\"Has README\", \"Has README\"]}"
BareRecordText == "{\"comments_score\": 0}"

JSONparse(text) ==
    IF text = FullRecordText
    THEN [comments_score |-> 6, naming_score |-> 6, tests_score |-> 10,
          examples_score |-> 8,
          highlights |-> << "Test files found", "Good documentation" >>]
    ELSE IF text = PartialRecordText
    THEN [naming_score |-> 3, highlights |-> << "Has README", "Has README" >>]
    ELSE [comments_score |-> 0]

\* Whether JSON.parse(text) returns rather than throws.
parses(text) == text \in {FullRecordText, PartialRecordText, BareRecordText}

\* The last line of lines that starts with "{" and ends with "}" once
\* trimmed, or "" when there is none.
jsonLine(lines) ==
    LET hits == {i \in 1..Len(lines) :
                    StartsWith(trim(lines[i]), "{") /\ EndsWith(trim(lines[i]), "}")}
    IN  IF hits = {} THEN "" ELSE trim(lines[Greatest(hits)])

\* What the 'close' listener settles the promise with.
closeResult(code, stdout, stderr) ==
    IF code # "0"
    THEN [kind |-> "rejected",
          message |-> "Python analyzer failed with code " \o code \o ": " \o stderr]
    ELSE LET lines == Split(trim(stdout), "\n")
             found == jsonLine(lines)
         IN  IF found = ""
             THEN [kind |-> "rejected",
                   message |-> "Failed to parse Python analyzer output: "
                               \o "No valid JSON found in Python output"]
             ELSE IF ~parses(found)
             THEN [kind |-> "rejected",
                   message |-> "Failed to parse Python analyzer output: "
                               \o "Unexpected token in JSON"]
             ELSE [kind |-> "resolved", value |-> JSONparse(found)]

\* Faulty variant of OrZero: a missing field becomes -1.
OrMinusOne(obj, field) == IF field \in DOMAIN obj THEN obj[field] ELSE -1

\* obj.field, with 0 standing in when it is missing or falsy (x || 0).
OrZero(obj, field) == IF field \in DOMAIN obj THEN obj[field] ELSE 0
\* obj.highlights || []
OrEmpty(obj, field) == IF field \in DOMAIN obj THEN obj[field] ELSE << >>

\* Faulty variant of firstOccurrences: nothing is filtered out.
allOccurrences(arr) == arr

\* arr.filter((h, index, arr) => arr.indexOf(h) === index)
firstOccurrences(arr) ==
    LET keep == {i \in 1..Len(arr) : \A j \in 1..(i - 1) : arr[j] # arr[i]}
    IN  [k \in 1..Cardinality(keep) |-> arr[Nth(keep, k)]]

\* pythonMetrics.error is truthy: present and not the empty string.
hasError(pythonMetrics) ==
    "error" \in DOMAIN pythonMetrics /\ pythonMetrics.error # ""

\* Faulty variant of mergeMetrics: the error branch copies the fields that
\* computeMetrics returns and misses the one analyzeRepository adds.
mergeMetricsWithoutBranch(nodeMetrics, pythonMetrics) ==
    [f \in (DOMAIN nodeMetrics \ {"usedBranch"}) \cup {"pythonAnalysis", "combined"} |->
        IF f = "pythonAnalysis"
        THEN (IF "error" \in DOMAIN pythonMetrics THEN [error |-> pythonMetrics.error]
              ELSE pythonMetrics)
        ELSE IF f = "combined" THEN TRUE
        ELSE nodeMetrics[f]]

mergeMetrics(nodeMetrics, pythonMetrics) ==
    IF hasError(pythonMetrics)
    THEN [f \in DOMAIN nodeMetrics \cup {"pythonAnalysis", "combined"} |->
             IF f = "pythonAnalysis" THEN [error |-> pythonMetrics.error]
             ELSE IF f = "combined" THEN TRUE
             ELSE nodeMetrics[f]]
    ELSE [totalFiles    |-> nodeMetrics.totalFiles,
          totalLines    |-> nodeMetrics.totalLines,
          commentLines  |-> nodeMetrics.commentLines,
          commentsRatio |-> nodeMetrics.commentsRatio,
          hasReadme     |-> nodeMetrics.hasReadme,
          hasTests      |-> nodeMetrics.hasTests,
          fileTypes     |-> nodeMetrics.fileTypes,
          usedBranch    |-> nodeMetrics.usedBranch,
          codeSamples   |-> nodeMetrics.codeSamples,
          aiPatterns    |-> nodeMetrics.aiPatterns,
          pythonAnalysis |->
              [comments_score |-> OrZero(pythonMetrics, "comments_score"),
               naming_score   |-> OrZero(pythonMetrics, "naming_score"),
               tests_score    |-> OrZero(pythonMetrics, "tests_score"),
               examples_score |-> OrZero(pythonMetrics, "examples_score"),
               highlights     |-> OrEmpty(pythonMetrics, "highlights")],
          combinedHighlights |->
              firstOccurrences(OrEmpty(nodeMetrics, "highlights")
                               \o OrEmpty(pythonMetrics, "highlights")),
          combined |-> TRUE]

\* ------------------------------------------------------------------ inputs
\* Messages of the errors the environment raises.
GitErrors == { "fatal: repository not found" }
FsError == "EACCES: permission denied"
SpawnError == "spawn python ENOENT"

\* What the analyzer process may have written to stdout when it closes.
PyOutputs ==
    { "",
      "Analyzing repository\n" \o FullRecordText \o "\n",
      PartialRecordText \o "\nwarning: 2 files skipped\n",
      FullRecordText \o "\n{truncated}\n",
      BareRecordText }
PyExitCodes == { "0", "1", "null" }
PyStderr == { "", "Traceback" }

\* The ways the analyzer process may have run when it closes: the code it
\* closes with, and what it has written by then.  A process that exits with 0
\* has written no error text; one that fails or is killed has written a
\* traceback, after at most a record.
PyRuns ==
    {r \in [code : PyExitCodes, stdout : PyOutputs, stderr : PyStderr] :
        IF r.code = "0" THEN r.stderr = ""
        ELSE r.stderr = "Traceback" /\ r.stdout \in {"", BareRecordText}}

\* The process could not be spawned: 'close' follows 'error' with code -2.
FailedSpawn == [code |-> "-2", stdout |-> "", stderr |-> ""]

\* closeResult, tabulated over the runs.
Closed == [r \in PyRuns \cup {FailedSpawn} |-> closeResult(r.code, r.stdout, r.stderr)]

\* Reports of the scoring step (the external collaborator's, the fallback's).
CollaboratorReport ==
    [aiPatterns |-> 7, codeStructure |-> 6, documentation |-> 5, complexity |-> 4,
     overall |-> 6, isVibeCoded |-> TRUE, verdict |-> "LIKELY AI-GENERATED",
     highlights |-> << "Generic names" >>]
FallbackReport ==
    [aiPatterns |-> 5, codeStructure |-> 5, documentation |-> 5, complexity |-> 5,
     overall |-> 5, isVibeCoded |-> FALSE, verdict |-> "MIXED",
     highlights |-> << >>]

\* llmScorer.scoreRepository(metrics): the collaborator's report, or the
\* local fallback when the collaborator fails; it never throws.
scoreRepository(metrics, collaboratorOk) ==
    IF collaboratorOk THEN CollaboratorReport ELSE FallbackReport

\* ------------------------------------------------------------------- state
VARIABLES
    req,            \* req.query.repo of the request
    pc,             \* where the request is: "received", "ensureDir", "cloning",
                    \* "walking", "python", "cleanup", "scoring", "done"
    tempRepoPath,   \* the scratch path of the request ("" before createTempPath)
    exists,         \* whether the scratch path exists on disk
    attempts,       \* the clone attempts made so far, in order, each with the
                    \* branch it asked for and whether it succeeded
    usedBranch,     \* the branch cloneRepo returned ("" before it returns)
    walk,           \* the walk: its state, the stack of analyzeDirectory calls in
                    \* progress, whether listing the root succeeded, how many
                    \* entries fs.readdir has returned so far, and the entry the
                    \* loop handled last with what was done with it
    stats,          \* the accumulator of the walk
    nodeMetrics,    \* result of computeMetrics (Nothing before)
    py,             \* the analyzer process, its promise and its timer, and once
                    \* it has closed its exit code and what it had written
    combinedMetrics,\* result of mergeMetrics (Nothing before)
    outcome,        \* how analyzeRepository settles
    removal,        \* what cleanup did: "none" before it runs, then "skipped"
                    \* (no such path), "removed" or "failed" (fs.remove threw)
    scoring,        \* result of scoreRepository (Nothing before)
    response,       \* the HTTP response sent
    now,            \* Date.now(), as an index into Timestamps
    inflight,       \* the requests the shared RepoAnalyzer instance serves side
                    \* by side: where each one is and the scratch path it holds
    disk            \* the scratch paths of the requests in inflight that exist

vars == << req, pc, tempRepoPath, exists, attempts, usedBranch, walk, stats,
           nodeMetrics, py, combinedMetrics, outcome, removal, scoring, response,
           now, inflight, disk >>

Nothing == [none |-> TRUE]

IdleWalk ==
    [state |-> "idle", stack |-> << >>, rootListed |-> FALSE, seen |-> 0, item |-> Nothing]

IdlePy ==
    [proc |-> "none", timer |-> "none", promise |-> [kind |-> "none"], killed |-> FALSE,
     code |-> "", stdout |-> "", stderr |-> ""]

\* The requests served side by side, and the values Date.now() takes.
Requests == { "first", "second" }
Timestamps == << "1700000000000", "1700000000001" >>

\* No request is in flight on the shared instance and tempDir is empty.
Quiet ==
    /\ now = 1
    /\ inflight = [r \in Requests |-> [pc |-> "idle", path |-> "", owns |-> FALSE]]
    /\ disk = {}

Start(r) ==
    /\ req = r
    /\ pc = "received"
    /\ tempRepoPath = ""
    /\ exists = FALSE
    /\ attempts = << >>
    /\ usedBranch = ""
    /\ walk = IdleWalk
    /\ stats = EmptyStats
    /\ nodeMetrics = Nothing
    /\ py = IdlePy
    /\ combinedMetrics = Nothing
    /\ outcome = [kind |-> "none"]
    /\ removal = "none"
    /\ scoring = Nothing
    /\ response = [sent |-> FALSE]
    /\ Quiet

Init == \E r \in RepoInputs : Start(r)

\* ----------------------------------------------------------------- handler
ErrorResponse(status, error, message) ==
    [sent |-> TRUE, status |-> status, body |-> [error |-> error, message |-> message]]

\* analyzeRepository's catch: the error it rethrows, pending the finally.
Thrown(message) == [kind |-> "error", message |-> "Failed to analyze repository: " \o message]

\* The handler up to its first await: validation, extractRepoInfo, and
\* analyzeRepository as far as createTempPath and the call of cloneRepo.
Receive ==
    /\ pc = "received"
    /\ \/ /\ ~req.given
          /\ response' = ErrorResponse(400, "Missing required parameter: repo",
                             "Please provide a GitHub repository URL as a query parameter")
          /\ pc' = "done"
          /\ UNCHANGED tempRepoPath
       \/ /\ req.given /\ ~isValidGitHubUrl(req)
          /\ response' = ErrorResponse(400, "Invalid GitHub URL",
                             "Please provide a valid GitHub repository URL")
          /\ pc' = "done"
          /\ UNCHANGED tempRepoPath
       \/ /\ req.given /\ isValidGitHubUrl(req)
          /\ \E name \in TempNames : tempRepoPath' = tempDir \o "/" \o name
          /\ pc' = "ensureDir"
          /\ UNCHANGED response
    /\ UNCHANGED << now, inflight, disk, req, removal, exists, attempts, usedBranch, walk, stats, nodeMetrics,
                    py, combinedMetrics, outcome, scoring >>

\* cloneRepo: await fs.ensureDir(this.tempDir).
EnsureDir ==
    /\ pc = "ensureDir"
    /\ \/ /\ pc' = "cloning"
          /\ UNCHANGED outcome
       \/ /\ outcome' = Thrown("Failed to clone repository: " \o FsError)
          /\ pc' = "cleanup"
    /\ UNCHANGED << now, inflight, disk, req, removal, tempRepoPath, exists, attempts, usedBranch, walk, stats,
                    nodeMetrics, py, combinedMetrics, scoring, response >>

\* cloneRepo: one await git.clone(...) and what follows it up to the next
\* await.  ok tells whether that clone succeeds.
CloneAttempt ==
    /\ pc = "cloning"
    /\ LET list == cloneAttempts(RepoInfo[req].branch)
           name == list[Len(attempts) + 1]
       IN  /\ \E ok \in BOOLEAN :
                 attempts' = Append(attempts, [branch |-> name, ok |-> ok])
           /\ \/ /\ attempts'[Len(attempts')].ok
                 /\ usedBranch' = name
                 /\ exists' = TRUE
                 /\ walk' = [walk EXCEPT !.state = "listing"]
                 /\ pc' = "walking"
                 /\ UNCHANGED outcome
              \/ /\ ~attempts'[Len(attempts')].ok
                 /\ Len(attempts) + 1 < Len(list)
                 /\ UNCHANGED << usedBranch, exists, walk, pc, outcome >>
              \/ /\ ~attempts'[Len(attempts')].ok
                 /\ Len(attempts) + 1 = Len(list)
                 /\ \E e \in GitErrors :
                        outcome' = Thrown("Failed to clone repository: "
                                          \o "Failed to clone repository with any branch: " \o e)
                 /\ pc' = "cleanup"
                 /\ UNCHANGED << usedBranch, exists, walk >>
    /\ UNCHANGED << now, inflight, disk, req, removal, tempRepoPath, stats, nodeMetrics, py, combinedMetrics,
                    scoring, response >>

\* ------------------------------------------------------------------ walker
\* Calls of analyzeDirectory whose loop has ended return to their caller.
\* (a frame below the innermost one is in the stack with the item being
\* visited already counted off, so the frames that remain are those up to the
\* last one with items left).
Returned(stack) ==
    SubSeq(stack, 1, Greatest({k \in 1..Len(stack) : stack[k].left > 0} \cup {0}))

\* The stack with the innermost loop moved past its current item.
Advanced(stack) ==
    [stack EXCEPT ![Len(stack)].left = @ - 1]

\* analyzeDirectory(repoPath): await fs.readdir of the root.  A failure is
\* caught by analyzeDirectory itself, which then returns normally.
ListRoot ==
    /\ pc = "walking" /\ walk.state = "listing"
    /\ \/ \E n \in 0..MaxEntries :
            walk' = [state |-> "visiting",
                     stack |-> Returned(<< [dir |-> tempRepoPath, left |-> n] >>),
                     rootListed |-> TRUE, seen |-> n, item |-> Nothing]
       \/ walk' = [state |-> "visiting", stack |-> << >>, rootListed |-> FALSE,
                   seen |-> 0, item |-> Nothing]
    /\ UNCHANGED << now, inflight, disk, req, removal, pc, tempRepoPath, exists, attempts, usedBranch, stats,
                    nodeMetrics, py, combinedMetrics, outcome, scoring, response >>

\* The entry e of directory dir, and what the loop did with it.
Handled(e, dir, did) ==
    [name |-> e.name, dir |-> dir, isDir |-> e.isDir, content |-> e.content, did |-> did]

\* What analyzeFile did with a file: fs.readFile is called for text files
\* only.
FileOutcome(filePath, readOk) ==
    IF ~Classified[filePath].text THEN "not text"
    ELSE IF readOk THEN "read" ELSE "read failed"

\* One iteration of the innermost analyzeDirectory loop on entry e.
Visit ==
    /\ pc = "walking" /\ walk.state = "visiting" /\ walk.stack # << >>
    /\ LET stack == walk.stack
           top   == stack[Len(stack)]
       IN  \E e \in Repository(req) :
             \* fs.stat throws: the catch ends this directory's loop
             \/ /\ walk' = [walk EXCEPT
                              !.stack = Returned(SubSeq(stack, 1, Len(stack) - 1)),
                              !.item = Handled(e, top.dir, "stat failed")]
                /\ UNCHANGED stats
             \* hidden or ignored name: continue
             \/ /\ skipped(e.name)
                /\ walk' = [walk EXCEPT !.stack = Returned(Advanced(stack)),
                                        !.item = Handled(e, top.dir, "skipped")]
                /\ UNCHANGED stats
             \* a directory whose listing fails (caught in the nested call)
             \/ /\ ~skipped(e.name) /\ e.isDir
                /\ walk' = [walk EXCEPT !.stack = Returned(Advanced(stack)),
                                        !.item = Handled(e, top.dir, "list failed")]
                /\ UNCHANGED stats
             \* a directory that lists n entries
             \/ /\ ~skipped(e.name) /\ e.isDir
                /\ \E n \in 0..(MaxEntries - walk.seen) :
                     walk' = [walk EXCEPT
                                !.stack = Returned(Append(Advanced(stack),
                                    [dir |-> top.dir \o "/" \o e.name, left |-> n])),
                                !.seen = @ + n,
                                !.item = Handled(e, top.dir, "listed")]
                /\ UNCHANGED stats
             \* a regular file
             \/ /\ ~skipped(e.name) /\ ~e.isDir
                /\ \E readOk \in BOOLEAN :
                     /\ stats' = analyzeFile(top.dir \o "/" \o e.name, stats, readOk, e.content)
                     /\ walk' = [walk EXCEPT
                                   !.stack = Returned(Advanced(stack)),
                                   !.item = Handled(e, top.dir,
                                                FileOutcome(top.dir \o "/" \o e.name, readOk))]
    /\ UNCHANGED << now, inflight, disk, req, removal, pc, tempRepoPath, exists, attempts,
                    usedBranch, nodeMetrics, py, combinedMetrics, outcome, scoring, response >>

\* The walk has returned: computeMetrics builds its result, analyzeRepository
\* sets usedBranch and PythonIntegration.analyzeRepository spawns the
\* analyzer process, registers its listeners and arms the 60 s timer.
FinishWalk ==
    /\ pc = "walking" /\ walk.state = "visiting" /\ walk.stack = << >>
    /\ walk' = [walk EXCEPT !.state = "done", !.item = Nothing]
    /\ nodeMetrics' = computeMetrics(stats, usedBranch)
    /\ py' = [IdlePy EXCEPT !.proc = "running", !.timer = "armed",
                            !.promise = [kind |-> "pending"]]
    /\ pc' = "python"
    /\ UNCHANGED << now, inflight, disk, req, removal, tempRepoPath, exists, attempts, usedBranch, stats,
                    combinedMetrics, outcome, scoring, response >>

\* ------------------------------------------------ analyzer process events
\* Faulty variant of Settle: every call of resolve or reject takes effect.
SettleAgain(promise, result) == result

\* resolve(...) / reject(...): only the first call settles a promise.
Settle(promise, result) == IF promise.kind = "pending" THEN result ELSE promise

Rejected(message) == [kind |-> "rejected", message |-> message]

\* pythonProcess.on('close', code => ...).  The process closes on its own,
\* after a failed spawn (code -2), or after the timer's kill.
PyClose ==
    /\ py.proc \in {"running", "errored", "signalled"}
    /\ \E run \in (IF py.proc = "errored" THEN {FailedSpawn} ELSE PyRuns) :
         py' = [py EXCEPT !.proc = "closed",
                          !.code = run.code, !.stdout = run.stdout, !.stderr = run.stderr,
                          !.promise = Settle(@, Closed[run])]
    /\ UNCHANGED << now, inflight, disk, req, removal, pc, tempRepoPath, exists, attempts,
                    usedBranch, walk, stats, nodeMetrics, combinedMetrics, outcome, scoring,
                    response >>

\* pythonProcess.on('error', error => ...): the process could not be started.
PyError ==
    /\ py.proc = "running"
    /\ py' = [py EXCEPT !.proc = "errored",
                        !.promise = Settle(@, Rejected("Failed to start Python analyzer: "
                                                       \o SpawnError))]
    /\ UNCHANGED << now, inflight, disk, req, removal, pc, tempRepoPath, exists, attempts, usedBranch, walk, stats,
                    nodeMetrics, combinedMetrics, outcome, scoring, response >>

\* Faulty variant of PyTimeout: the process is killed, the promise is left.
PyTimeoutKillOnly ==
    /\ py.timer = "armed"
    /\ py' = [py EXCEPT !.timer = "fired",
                        !.killed = TRUE,
                        !.proc = IF @ = "running" THEN "signalled" ELSE @]
    /\ UNCHANGED << now, inflight, disk, req, removal, pc, tempRepoPath, exists, attempts, usedBranch, walk, stats,
                    nodeMetrics, combinedMetrics, outcome, scoring, response >>

\* The setTimeout callback, 60000 ms after the spawn: kill, then reject.
\* The timer is never cleared, so it fires whatever happened before.
PyTimeout ==
    /\ py.timer = "armed"
    /\ py' = [py EXCEPT !.timer = "fired",
                        !.killed = TRUE,
                        !.proc = IF @ = "running" THEN "signalled" ELSE @,
                        !.promise = Settle(@, Rejected("Python analyzer timeout"))]
    /\ UNCHANGED << now, inflight, disk, req, removal, pc, tempRepoPath, exists, attempts, usedBranch, walk, stats,
                    nodeMetrics, combinedMetrics, outcome, scoring, response >>

\* Faulty variant of pythonMetrics: the marker takes its text from a property
\* the error lacks, and is empty.
pythonMetricsWithoutMessage(promise) ==
    IF promise.kind = "resolved" THEN promise.value ELSE [error |-> ""]

\* The value analyzeRepository hands to the merger for a settled promise.
pythonMetrics(promise) ==
    IF promise.kind = "resolved" THEN promise.value ELSE [error |-> promise.message]

\* Faulty variant of AfterPython: no inner catch, a rejected invocation
\* reaches analyzeRepository's own catch.
AfterPythonWithoutCatch ==
    /\ pc = "python" /\ py.promise.kind \in {"resolved", "rejected"}
    /\ IF py.promise.kind = "resolved"
       THEN /\ combinedMetrics' = mergeMetrics(nodeMetrics, py.promise.value)
            /\ outcome' = [kind |-> "value"]
       ELSE /\ outcome' = [kind |-> "error",
                           message |-> "Failed to analyze repository: " \o py.promise.message]
            /\ UNCHANGED combinedMetrics
    /\ pc' = "cleanup"
    /\ UNCHANGED << now, inflight, disk, req, removal, tempRepoPath, exists, attempts, usedBranch, walk, stats,
                    nodeMetrics, py, scoring, response >>

\* Faulty variant of AfterPython: the merge assigns its result's fields onto
\* nodeMetrics (Object.assign(nodeMetrics, ...)) instead of building a new
\* object.
AfterPythonAssigning ==
    /\ pc = "python" /\ py.promise.kind \in {"resolved", "rejected"}
    /\ combinedMetrics' = mergeMetrics(nodeMetrics, pythonMetrics(py.promise))
    /\ nodeMetrics' = combinedMetrics'
    /\ outcome' = [kind |-> "value"]
    /\ pc' = "cleanup"
    /\ UNCHANGED << now, inflight, disk, req, removal, tempRepoPath, exists, attempts, usedBranch, walk, stats,
                    py, scoring, response >>

\* analyzeRepository resumes after the await of the analyzer promise: the
\* inner catch, mergeMetrics, and the return (pending the finally).
AfterPython ==
    /\ pc = "python" /\ py.promise.kind \in {"resolved", "rejected"}
    /\ combinedMetrics' = mergeMetrics(nodeMetrics, pythonMetrics(py.promise))
    /\ outcome' = [kind |-> "value"]
    /\ pc' = "cleanup"
    /\ UNCHANGED << now, inflight, disk, req, removal, tempRepoPath, exists, attempts, usedBranch, walk, stats,
                    nodeMetrics, py, scoring, response >>

\* Faulty variant of cleanup: the path is checked and never removed.
cleanupWithoutRemove(pathExists, removeOk) == pathExists

\* Whether the scratch path exists after cleanup(tempPath): fs.remove is
\* called only when the path exists, and its failure is swallowed.
cleanup(pathExists, removeOk) == pathExists /\ ~removeOk

\* The finally block, and the handler's reaction to how analyzeRepository
\* settles: its catch block answers an error, otherwise scoring starts.
Cleanup ==
    /\ pc = "cleanup"
    /\ \E removeOk \in BOOLEAN :
         /\ exists' = cleanup(exists, removeOk)
         /\ removal' = IF ~exists THEN "skipped" ELSE IF removeOk THEN "removed" ELSE "failed"
    /\ IF outcome.kind = "error"
       THEN /\ response' = ErrorResponse(ErrorStatus(outcome.message),
                                         "Analysis failed", outcome.message)
            /\ pc' = "done"
       ELSE /\ pc' = "scoring"
            /\ UNCHANGED response
    /\ UNCHANGED << now, inflight, disk, req, tempRepoPath, attempts, usedBranch, walk, stats, nodeMetrics,
                    py, combinedMetrics, outcome, scoring >>

\* The body of a successful response: the report's fields plus metadata.
SuccessBody(report, repo, metrics) ==
    [f \in DOMAIN report \cup {"metadata"} |->
        IF f = "metadata"
        THEN LET repoInfo == RepoInfo[repo]
             IN  [repo |-> repo.text, baseRepo |-> repoInfo.baseUrl,
                  branch |-> IF repoInfo.branch # "" THEN repoInfo.branch ELSE "default",
                  metrics |-> [totalFiles |-> metrics.totalFiles,
                               totalLines |-> metrics.totalLines,
                               commentsRatio |-> metrics.commentsRatio,
                               hasReadme |-> metrics.hasReadme,
                               hasTests |-> metrics.hasTests]]
        ELSE report[f]]

\* await llmScorer.scoreRepository(metrics), then res.json(response).
Score ==
    /\ pc = "scoring"
    /\ \E collaboratorOk \in BOOLEAN :
         /\ scoring' = scoreRepository(combinedMetrics, collaboratorOk)
         /\ response' = [sent |-> TRUE, status |-> 200,
                         body |-> SuccessBody(scoring', req, combinedMetrics)]
    /\ pc' = "done"
    /\ UNCHANGED << now, inflight, disk, req, removal, tempRepoPath, exists, attempts, usedBranch, walk, stats,
                    nodeMetrics, py, combinedMetrics, outcome >>

Next ==
    \/ Receive
    \/ EnsureDir
    \/ CloneAttempt
    \/ ListRoot
    \/ Visit
    \/ FinishWalk
    \/ PyClose
    \/ PyError
    \/ PyTimeout
    \/ AfterPython
    \/ Cleanup
    \/ Score

Spec == Init /\ [][Next]_vars

\* ------------------------------------------------- metrics-only executions
\* Executions that start where a walk has just returned with an accumulator
\* of totalLines lines, commentLines of them comments (one text file when
\* there is any line), and take the step that builds the RepositoryMetrics.
WalkedFrom(totalLines, commentLines) ==
    /\ req = UrlInput("https://github.com/u/r", "github.com", "/u/r")
    /\ pc = "walking"
    /\ \E name \in TempNames : tempRepoPath = tempDir \o "/" \o name
    /\ exists = TRUE
    /\ attempts = << [branch |-> "main", ok |-> TRUE] >>
    /\ usedBranch = "main"
    /\ walk = [state |-> "visiting", stack |-> << >>, rootListed |-> TRUE,
               seen |-> IF totalLines > 0 THEN 1 ELSE 0, item |-> Nothing]
    /\ stats = [EmptyStats EXCEPT
                  !.totalFiles   = IF totalLines > 0 THEN 1 ELSE 0,
                  !.totalLines   = totalLines,
                  !.commentLines = commentLines,
                  !.fileTypes    = IF totalLines > 0 THEN CountType(@, ".js") ELSE @]
    /\ nodeMetrics = Nothing
    /\ py = IdlePy
    /\ combinedMetrics = Nothing
    /\ outcome = [kind |-> "none"]
    /\ removal = "none"
    /\ scoring = Nothing
    /\ response = [sent |-> FALSE]
    /\ Quiet

MetricsInit ==
    \E totalLines \in 0..MaxLines : \E commentLines \in 0..totalLines :
        WalkedFrom(totalLines, commentLines)

MetricsSpec == MetricsInit /\ [][FinishWalk]_vars

\* --------------------------------------------------- walk-only executions
\* Executions that start where the first clone of the sample repository has
\* just succeeded, and follow the walk to the RepositoryMetrics.
WalkInit ==
    /\ req = SampleRepo
    /\ pc = "walking"
    /\ \E name \in ScratchNames : tempRepoPath = tempDir \o "/" \o name
    /\ exists = TRUE
    /\ attempts = << [branch |-> "main", ok |-> TRUE] >>
    /\ usedBranch = "main"
    /\ walk = [IdleWalk EXCEPT !.state = "listing"]
    /\ stats = EmptyStats
    /\ nodeMetrics = Nothing
    /\ py = IdlePy
    /\ combinedMetrics = Nothing
    /\ outcome = [kind |-> "none"]
    /\ removal = "none"
    /\ scoring = Nothing
    /\ response = [sent |-> FALSE]
    /\ Quiet

WalkNext ==
    \/ ListRoot
    \/ Visit
    \/ FinishWalk

WalkSpec == WalkInit /\ [][WalkNext]_vars

\* Executions of the part of a request that follows the walk: the analyzer
\* process and its timer, the merge, the cleanup and the scoring, for a
\* repository without text files and for one with a single one-line file.
AnalyzerInit == WalkedFrom(0, 0) \/ WalkedFrom(1, 0) \/ WalkedFrom(1, 1)

AnalyzerNext ==
    \/ FinishWalk
    \/ PyClose
    \/ PyError
    \/ PyTimeout
    \/ AfterPython
    \/ Cleanup
    \/ Score

\* Node's event loop runs every due timer callback and every continuation of
\* a settled promise, and the calls of the file system and of the scoring
\* step return; nothing makes the analyzer process close.
FairSpec ==
    /\ AnalyzerInit
    /\ [][AnalyzerNext]_vars
    /\ WF_vars(FinishWalk)
    /\ WF_vars(PyTimeout)
    /\ WF_vars(AfterPython)
    /\ WF_vars(Cleanup)
    /\ WF_vars(Score)

\* ------------------------------------------ requests served side by side
\* index.js creates one RepoAnalyzer for the server; every request calls its
\* analyzeRepository, and the calls interleave at their awaits.  These
\* executions follow the scratch paths of the requests in Requests.

\* What Math.random().toString(36) may return.
RandomStrings == { "0.i", "0.4fzyok3x9qa", "0.9k2m1k3x9qa", "0.9k2m10q2m7c" }

\* Math.random().toString(36).substring(7)
randomId(text) == SubSeq(text, 8, Len(text))

\* path.join(this.tempDir, `repo_${timestamp}_${randomId}`)
createTempPath(timestamp, text) ==
    tempDir \o "/" \o "repo_" \o timestamp \o "_" \o randomId(text)

\* A millisecond passes.
Tick ==
    /\ now < Len(Timestamps)
    /\ now' = now + 1
    /\ UNCHANGED << inflight, disk, req, pc, tempRepoPath, exists, attempts, usedBranch,
                    walk, stats, nodeMetrics, py, combinedMetrics, outcome, removal,
                    scoring, response >>

\* analyzeRepository starts for request r: createTempPath.
Arrive(r) ==
    /\ inflight[r].pc = "idle"
    /\ \E text \in RandomStrings :
         inflight' = [inflight EXCEPT
                        ![r] = [pc |-> "cloning", owns |-> FALSE,
                                path |-> createTempPath(Timestamps[now], text)]]
    /\ UNCHANGED << now, disk, req, pc, tempRepoPath, exists, attempts, usedBranch,
                    walk, stats, nodeMetrics, py, combinedMetrics, outcome, removal,
                    scoring, response >>

\* cloneRepo for request r.  git refuses to clone into a path that exists
\* and is not an empty directory, so every attempt into such a path fails.
PeerClone(r) ==
    /\ inflight[r].pc = "cloning"
    /\ \E ok \in BOOLEAN :
         IF ok /\ inflight[r].path \notin disk
         THEN /\ disk' = disk \cup {inflight[r].path}
              /\ inflight' = [inflight EXCEPT ![r].pc = "walking", ![r].owns = TRUE]
         ELSE /\ inflight' = [inflight EXCEPT ![r].pc = "cleanup"]
              /\ UNCHANGED disk
    /\ UNCHANGED << now, req, pc, tempRepoPath, exists, attempts, usedBranch,
                    walk, stats, nodeMetrics, py, combinedMetrics, outcome, removal,
                    scoring, response >>

\* computeMetrics, the analyzer process and mergeMetrics for request r.
PeerAnalyze(r) ==
    /\ inflight[r].pc = "walking"
    /\ inflight' = [inflight EXCEPT ![r].pc = "cleanup"]
    /\ UNCHANGED << now, disk, req, pc, tempRepoPath, exists, attempts, usedBranch,
                    walk, stats, nodeMetrics, py, combinedMetrics, outcome, removal,
                    scoring, response >>

\* The finally block of request r: cleanup(tempRepoPath).
PeerCleanup(r) ==
    /\ inflight[r].pc = "cleanup"
    /\ \E removeOk \in BOOLEAN :
         disk' = IF cleanup(inflight[r].path \in disk, removeOk)
                 THEN disk ELSE disk \ {inflight[r].path}
    /\ inflight' = [inflight EXCEPT ![r].pc = "done"]
    /\ UNCHANGED << now, req, pc, tempRepoPath, exists, attempts, usedBranch,
                    walk, stats, nodeMetrics, py, combinedMetrics, outcome, removal,
                    scoring, response >>

ConcurrentNext ==
    \/ Tick
    \/ \E r \in Requests : Arrive(r)
    \/ \E r \in Requests : PeerClone(r)
    \/ \E r \in Requests : PeerAnalyze(r)
    \/ \E r \in Requests : PeerCleanup(r)

ConcurrentSpec == Init /\ [][ConcurrentNext]_vars

\* ------------------------------------------------ executions late in a walk
\* Executions that start where a walk of the third repository has already
\* read `files` files index.js of the content LargeJs, each in a directory of
\* its own, and has up to MaxEntries entries of the root directory left.
MaxFiles == 21

Walked[files \in 0..MaxFiles] ==
    IF files = 0 THEN EmptyStats
    ELSE Accumulated([fileName |-> "index.js", ext |-> ".js", readme |-> FALSE,
                      test |-> FALSE, text |-> TRUE, main |-> TRUE],
                     Measured[<< LargeJs, ".js" >>], Walked[files - 1], TRUE)

SamplesInit ==
    /\ req = LongRepo
    /\ pc = "walking"
    /\ \E name \in TempNames : tempRepoPath = tempDir \o "/" \o name
    /\ exists = TRUE
    /\ attempts = << [branch |-> "main", ok |-> TRUE] >>
    /\ usedBranch = "main"
    /\ \E files \in 0..MaxFiles, left \in 1..MaxEntries :
         /\ walk = [state |-> "visiting", stack |-> << [dir |-> tempRepoPath, left |-> left] >>,
                    rootListed |-> TRUE, seen |-> left, item |-> Nothing]
         /\ stats = Walked[files]
    /\ nodeMetrics = Nothing
    /\ py = IdlePy
    /\ combinedMetrics = Nothing
    /\ outcome = [kind |-> "none"]
    /\ removal = "none"
    /\ scoring = Nothing
    /\ response = [sent |-> FALSE]
    /\ Quiet

SamplesNext ==
    \/ Visit
    \/ FinishWalk

SamplesSpec == SamplesInit /\ [][SamplesNext]_vars

\* ------------------------------------------------------------------ claims
\* The ten fields of RepositoryMetrics.
RepositoryMetricsFields ==
    { "totalFiles", "totalLines", "commentLines", "commentsRatio", "hasReadme",
      "hasTests", "fileTypes", "codeSamples", "aiPatterns", "usedBranch" }

\* analyzeRepository has settled: its finally block has run.
Settled == pc \in {"scoring", "done"} /\ tempRepoPath # ""

\* C1: once analyzeRepository has gone past the secondary analyzer and that
\* invocation was rejected (non-zero exit, no parseable record, failure to
\* start, timeout), the call has not failed: it returns a CombinedMetrics
\* whose pythonAnalysis is the error marker {error: message} with the
\* rejection's message, merged over the walker's RepositoryMetrics.
C1_AnalyzerFailureAbsorbed ==
    (py.promise.kind = "rejected" /\ pc \in {"cleanup", "scoring", "done"}) =>
        /\ outcome = [kind |-> "value"]
        /\ combinedMetrics # Nothing
        /\ py.promise.message # ""
        /\ combinedMetrics.pythonAnalysis = [error |-> py.promise.message]
        /\ combinedMetrics.combined = TRUE
        /\ \A f \in DOMAIN nodeMetrics : combinedMetrics[f] = nodeMetrics[f]

\* The analyzer timed out before closing, and the request was still answered
\* with a report.
C1_Witness ==
    /\ pc = "done"
    /\ py.promise = Rejected("Python analyzer timeout")
    /\ response.sent /\ response.status = 200
    /\ combinedMetrics.pythonAnalysis = [error |-> "Python analyzer timeout"]

\* C2: for the RepositoryMetrics of any walk and the error marker of any
\* rejected analyzer invocation, mergeMetrics returns every RepositoryMetrics
\* field with the input's value, plus pythonAnalysis = {error} and
\* combined = true.
C2_ErrorMergeKeepsFields ==
    (nodeMetrics # Nothing /\ py.promise.kind = "rejected") =>
        LET marker == [error |-> py.promise.message]
            merged == mergeMetrics(nodeMetrics, marker)
        IN  /\ \A f \in RepositoryMetricsFields :
                 f \in DOMAIN merged /\ merged[f] = nodeMetrics[f]
            /\ merged.pythonAnalysis = marker
            /\ merged.combined = TRUE

\* A rejected invocation after a walk that counted files and kept a sample.
C2_Witness ==
    /\ nodeMetrics # Nothing /\ py.promise.kind = "rejected"
    /\ nodeMetrics.totalFiles > 0
    /\ Len(nodeMetrics.codeSamples) > 0
    /\ nodeMetrics.hasReadme
    /\ mergeMetrics(nodeMetrics, [error |-> py.promise.message]).combined

\* commentLines / totalLines rounded half up to hundredths, in hundredths.
ExactHundredths(commentLines, totalLines) ==
    (200 * commentLines + totalLines) \div (2 * totalLines)

\* C3: the commentsRatio of every walk result is commentLines / totalLines
\* rounded to 2 decimal places, and 0 when totalLines = 0.
C3_RatioRoundedExactly ==
    nodeMetrics # Nothing =>
        nodeMetrics.commentsRatio =
            IF nodeMetrics.totalLines = 0 THEN 0
            ELSE ExactHundredths(nodeMetrics.commentLines, nodeMetrics.totalLines)

\* The request is not a GitHub repository URL, in the claim's terms: no
\* value, not a URL, another host, fewer than two path segments, or a
\* repository segment ending in ".git".
NotARepositoryUrl(r) ==
    \/ ~r.given
    \/ ~r.parses
    \/ r.hostname \notin {"github.com", "www.github.com"}
    \/ Len(PathParts(r)) < 2
    \/ EndsWith(PathParts(r)[2], ".git")

\* The attempts the claim lists for a request, in order.
ClaimedAttempts(r) ==
    LET requested == extractRepoInfo(r).branch
    IN  (IF requested # "" THEN << requested >> ELSE << >>)
        \o << "main", "master", "develop", "dev", "trunk", "default" >>

\* Both, tabulated over the requests.
Unacceptable == {r \in RepoInputs \cup {SampleRepo} : NotARepositoryUrl(r)}
Claimed == [r \in (RepoInputs \cup {SampleRepo}) \ Unacceptable |-> ClaimedAttempts(r)]

\* C4: the clone attempts made are a prefix of: the requested branch (if
\* any), main, master, develop, dev, trunk, the unqualified clone; only the
\* last attempt made can have succeeded (no attempt follows a success), and
\* usedBranch is the branch of that successful attempt.
C4_CloneOrder ==
    IF req \in Unacceptable THEN attempts = << >> /\ usedBranch = ""
    ELSE /\ Len(attempts) <= Len(Claimed[req])
         /\ \A i \in 1..Len(attempts) :
              /\ attempts[i].branch = Claimed[req][i]
              /\ attempts[i].ok => i = Len(attempts)
         /\ usedBranch # "" <=> (attempts # << >> /\ attempts[Len(attempts)].ok)
         /\ usedBranch # "" => usedBranch = attempts[Len(attempts)].branch
         /\ pc \notin {"received", "ensureDir", "cloning"} /\ usedBranch = ""
              => (attempts = << >> \/ Len(attempts) = Len(Claimed[req]))

\* feature-x was requested, the repository lacks it but has main.
C4_Witness ==
    /\ attempts = << [branch |-> "feature-x", ok |-> FALSE], [branch |-> "main", ok |-> TRUE] >>
    /\ usedBranch = "main"
    /\ pc = "done"

C6_InvocationSettles ==
    /\ (py.promise.kind = "pending") ~> (py.promise.kind \in {"resolved", "rejected"})
    /\ [][(py.promise.kind = "pending" /\ py.timer = "armed" /\ py'.timer = "fired")
            => (py'.killed /\ py'.proc # "running"
                /\ py'.promise = Rejected("Python analyzer timeout"))]_vars

\* The process never closed; the timer ended the invocation and the request
\* was answered.
C6_Witness ==
    /\ py.proc = "signalled" /\ py.killed
    /\ py.promise = Rejected("Python analyzer timeout")
    /\ pc = "done" /\ response.sent

\* C7: when listing the root handed to the walker fails, the analysis
\* fails: analyzeRepository returns no CombinedMetrics.
C7_UnreadableRootIsFatal ==
    (walk.state = "done" /\ ~walk.rootListed) =>
        /\ combinedMetrics = Nothing
        /\ Settled => outcome.kind = "error"

\* No clone attempt of the request succeeded (cloneRepo threw).
FetchFailed == pc \in {"cleanup", "scoring", "done"} /\ usedBranch = ""

\* C8: a response is an error response only for a validation failure or a
\* fetch failure; any other request that is answered, whatever files were
\* unreadable, however the secondary analyzer ended and whether or not the
\* scoring collaborator failed, gets status 200 and a report with the four
\* sub-scores.
C8_OnlyValidationAndFetchFail ==
    response.sent =>
        IF req \in Unacceptable \/ FetchFailed
        THEN response.status \in {400, 404} /\ "error" \in DOMAIN response.body
        ELSE /\ response.status = 200
             /\ {"aiPatterns", "codeStructure", "documentation", "complexity"}
                    \subseteq DOMAIN response.body
             /\ "error" \notin DOMAIN response.body

\* A file could not be read, the analyzer failed to start and the scoring
\* collaborator failed: the response is still a report.
C8_Witness ==
    /\ response.sent /\ response.status = 200
    /\ nodeMetrics.fileTypes # << >> /\ nodeMetrics.totalFiles = 0
    /\ py.promise.kind = "rejected"
    /\ scoring = FallbackReport

\* C9: a request without a repo value or with one that is not a GitHub
\* repository URL never gets a scratch path, a clone attempt, a walk, an
\* analyzer process, a merge or a scoring call, and its answer is a 400.
C9_InvalidRequestRejectedFirst ==
    req \in Unacceptable =>
        /\ tempRepoPath = "" /\ ~exists
        /\ attempts = << >>
        /\ walk = IdleWalk /\ stats = EmptyStats /\ nodeMetrics = Nothing
        /\ py = IdlePy
        /\ combinedMetrics = Nothing
        /\ scoring = Nothing
        /\ pc \in {"received", "done"}
        /\ pc = "done" <=> response.sent
        /\ response.sent => (response.status = 400 /\ "error" \in DOMAIN response.body)

\* A URL of another host was answered.
C9_Witness ==
    /\ req.given /\ req.hostname = "gitlab.com"
    /\ pc = "done"
    /\ response.sent /\ response.status = 400

\* C10: when every attempt the request allows has been made and failed,
\* analyzeRepository throws; no walk, analyzer process, merge or scoring call
\* exists for the request, and its answer is a 404 error, not a report.
C10_AllClonesFail ==
    (/\ req \notin Unacceptable
     /\ Len(attempts) = Len(Claimed[req])
     /\ \A i \in 1..Len(attempts) : ~attempts[i].ok) =>
        /\ outcome.kind = "error"
        /\ walk = IdleWalk /\ nodeMetrics = Nothing
        /\ py = IdlePy
        /\ combinedMetrics = Nothing
        /\ scoring = Nothing
        /\ pc \in {"cleanup", "done"}
        /\ pc = "done" <=> response.sent
        /\ response.sent =>
             /\ response.status = 404
             /\ "error" \in DOMAIN response.body
             /\ "aiPatterns" \notin DOMAIN response.body

\* The requested branch, the five default branches and the unqualified clone
\* were all tried.
C10_Witness ==
    /\ Len(attempts) = 7
    /\ attempts[1].branch = "feature-x"
    /\ \A i \in 1..7 : ~attempts[i].ok
    /\ pc = "done" /\ response.status = 404

\* Request r holds a scratch path: it is past createTempPath and its
\* analyzeRepository has not settled.
InFlight(r) == inflight[r].pc \in {"cloning", "walking", "cleanup"}

\* C11: any two requests in flight at the same time hold distinct scratch
\* paths, so the cleanup of one never removes the directory another cloned.
C11_DistinctScratchPaths ==
    \A a, b \in Requests :
        a # b /\ InFlight(a) /\ InFlight(b) => inflight[a].path # inflight[b].path

\* One iteration of the walker's loop has just been taken.
Visited ==
    /\ pc = "walking" /\ walk.state = "visiting"
    /\ walk'.state = "visiting" /\ walk' # walk

\* An entry name the walker is to pass over, in the claim's terms.
PassedOver(name) ==
    name \in {"node_modules", "dist", "build", ".git"} \/ SubSeq(name, 1, 1) = "."

\* The names on the way from the scratch path down to dir.
Below(dir) ==
    IF dir = tempRepoPath THEN << >>
    ELSE Split(SubSeq(dir, Len(tempRepoPath) + 2, Len(dir)), "/")

\* C13: no directory the walker lists lies in or under a directory named
\* node_modules, dist, build or .git or one whose name starts with ".", at
\* any depth; an iteration on an entry with such a name, or on a file whose
\* name starts with ".", lists nothing, reads nothing and leaves every field
\* of the accumulator as it was; no kept sample comes from such a file.
C13_IgnoredEntriesUntouched ==
    /\ [](/\ \A k \in 1..Len(walk.stack) :
               \A i \in 1..Len(Below(walk.stack[k].dir)) :
                   ~PassedOver(Below(walk.stack[k].dir)[i])
          /\ \A k \in 1..Len(stats.codeSamples) : ~PassedOver(stats.codeSamples[k].file))
    /\ [][(Visited /\ PassedOver(walk'.item.name)) =>
             /\ stats' = stats
             /\ walk'.seen = walk.seen
             /\ Len(walk'.stack) <= Len(walk.stack)
             /\ walk'.item.did \in {"skipped", "stat failed"}]_vars

\* One level down, the walker met node_modules and passed it over.
C13_Witness ==
    /\ walk.state = "visiting"
    /\ walk.item # Nothing
    /\ walk.item.name = "node_modules" /\ walk.item.did = "skipped"
    /\ walk.item.dir # tempRepoPath
    /\ walk.seen = MaxEntries

\* The fields of the accumulator that only the content of a file feeds.
ContentFields == {"totalFiles", "totalLines", "commentLines", "aiPatterns", "codeSamples"}

\* The loop of the innermost directory has moved on to its next entry, or
\* has returned when the entry was its last.
MovedOn ==
    LET depth == Len(walk.stack)
    IN  IF walk.stack[depth].left > 1
        THEN walk'.stack = [walk.stack EXCEPT ![depth].left = @ - 1]
        ELSE /\ Len(walk'.stack) < depth
             /\ walk'.stack = SubSeq(walk.stack, 1, Len(walk'.stack))

\* C14: an iteration on a text file whose read fails leaves totalFiles,
\* totalLines, commentLines, the four pattern counters and codeSamples as
\* they were, the loop goes on with the next entry of the same directory,
\* and nothing is thrown: the walk still ends in a RepositoryMetrics.
C14_UnreadableFileSkipped ==
    /\ [][(Visited /\ walk'.item.did = "read failed") =>
             /\ \A f \in ContentFields : stats'[f] = stats[f]
             /\ MovedOn
             /\ pc' = "walking" /\ outcome' = outcome]_vars
    /\ [](walk.state = "done" => nodeMetrics # Nothing /\ outcome.kind # "error")

\* After a file was read and counted, the next file of the directory could
\* not be read; only its type was noted.
C14_Witness ==
    /\ walk.item # Nothing /\ walk.item.did = "read failed"
    /\ walk.item.name = "index.js"
    /\ stats.totalFiles = 1
    /\ stats.fileTypes[".js"] = 1
    /\ stats.hasReadme

\* The four AiPatternCounters.
Counters == {"genericNames", "perfectFormatting", "boilerplateCode", "repetitivePatterns"}

\* The iteration just taken read a text file and ran the detectors on it.
Processed == Visited /\ walk'.item.did = "read"

\* Which detectors the content of a file trips.
Trips(content) ==
    [genericNames       |-> genericCount(content) > 5,
     perfectFormatting  |->
         RatioAbove(checkIndentationConsistency(Split(content, "\n")), 95, 100),
     boilerplateCode    |-> boilerplateCount(content) > 3,
     repetitivePatterns |-> RatioAbove(detectRepetitivePatterns(content), 3, 10)]

\* C15: in every step of a traversal each pattern counter grows by 1 when
\* the step processes a text file that trips its detector and keeps its
\* value otherwise, so no counter decreases; a file with 6 generic matches
\* (six.js) and one with 11 (eleven.js) each add exactly 1 to genericNames,
\* one with 5 (five.js) adds 0.
C15_OnePerTrippingFile ==
    [][/\ \A c \in Counters :
            stats'.aiPatterns[c] - stats.aiPatterns[c] =
                IF Processed /\ Trips(walk'.item.content)[c] THEN 1 ELSE 0
       /\ Processed =>
            /\ walk'.item.name \in {"six.js", "eleven.js"} =>
                 stats'.aiPatterns.genericNames = stats.aiPatterns.genericNames + 1
            /\ walk'.item.name = "five.js" =>
                 stats'.aiPatterns.genericNames = stats.aiPatterns.genericNames]_vars

\* six.js and then eleven.js were processed: genericNames is 2.
C15_Witness ==
    /\ walk.item # Nothing
    /\ walk.item.name = "eleven.js" /\ walk.item.did = "read"
    /\ genericCount(walk.item.content) = 11
    /\ genericCount("data item result run\n") = 6
    /\ genericCount("data item result\n") = 5
    /\ stats.totalFiles = 2
    /\ stats.fileTypes = (".js" :> 2)
    /\ stats.aiPatterns.genericNames = 2

\* The non-empty lines of a content, each in its whitespace-normalized form.
NormalizedLines(content) ==
    LET kept == NonBlank(Split(content, "\n"))
    IN  [k \in 1..Len(kept) |-> Normalized(kept[k])]

\* How many non-empty lines have a normalized form that occurs more than
\* once in the file.
RecurringLines(content) ==
    LET forms == NormalizedLines(content)
    IN  Cardinality({k \in 1..Len(forms) :
                        \E j \in 1..Len(forms) : j # k /\ forms[j] = forms[k]})

\* C16: a processed file with at least 5 non-empty lines adds 1 to
\* repetitivePatterns exactly when the number of its non-empty lines whose
\* normalized form recurs, divided by the number of its non-empty lines, is
\* greater than 0.3 (so a file of 10 identical lines adds 1).
C16_RepetitionCountsLines ==
    [][(Processed /\ Len(NormalizedLines(walk'.item.content)) >= 5) =>
          (stats'.aiPatterns.repetitivePatterns = stats.aiPatterns.repetitivePatterns + 1
           <=> 10 * RecurringLines(walk'.item.content)
                   > 3 * Len(NormalizedLines(walk'.item.content)))]_vars

\* The share of the non-empty lines of a content whose leading whitespace
\* has a length divisible by 4 (for a line indented with tabs that length is
\* its tab count), as numerator and denominator; 1 when no line is non-empty.
DivisibleByFour(content) ==
    LET kept == NonBlank(Split(content, "\n"))
    IN  IF Len(kept) = 0 THEN [num |-> 1, den |-> 1]
        ELSE [num |-> Cardinality({k \in 1..Len(kept) : LeadingSpace(kept[k]) % 4 = 0}),
              den |-> Len(kept)]

\* C17: a processed file adds 1 to perfectFormatting exactly when more than
\* 95% of its non-empty lines have a leading-whitespace length divisible by
\* 4; with 95% or fewer it adds nothing.
C17_FormattingByFours ==
    [][Processed =>
          (stats'.aiPatterns.perfectFormatting = stats.aiPatterns.perfectFormatting + 1
           <=> RatioAbove(DivisibleByFour(walk'.item.content), 95, 100))]_vars

\* C18: a processed file with fewer than 5 non-empty lines, and so one with
\* none, leaves repetitivePatterns as it was; a processed file with no
\* non-empty line adds 1 to perfectFormatting.
C18_DegenerateFiles ==
    [][Processed =>
          LET kept == NonBlank(Split(walk'.item.content, "\n"))
          IN  /\ Len(kept) < 5 =>
                   stats'.aiPatterns.repetitivePatterns = stats.aiPatterns.repetitivePatterns
              /\ Len(kept) = 0 =>
                   stats'.aiPatterns.perfectFormatting
                       = stats.aiPatterns.perfectFormatting + 1]_vars

\* An empty file and a file of blank lines were processed: both counted for
\* perfectFormatting, neither for repetitivePatterns.
C18_Witness ==
    /\ walk.item # Nothing /\ walk.item.did = "read"
    /\ walk.item.name = "blank.txt"
    /\ stats.fileTypes = (".js" :> 1) @@ (".txt" :> 1)
    /\ stats.totalFiles = 2
    /\ stats.totalLines = 5
    /\ stats.aiPatterns.perfectFormatting = 2
    /\ stats.aiPatterns.repetitivePatterns = 0

\* The 'close' handler settled the invocation: the process closed by itself
\* with exit code 0 before the timer fired.
ClosedWithZero == py.proc = "closed" /\ py.code = "0" /\ py.timer = "armed"

\* The lines of the output, in order, that are complete well-formed records.
RecordLines(stdout) ==
    SelectSeq(Split(stdout, "\n"), LAMBDA line : parses(trim(line)))

\* C19: when the analyzer exits with code 0, the invocation resolves with
\* the parse of the last line of its output that is a well-formed record,
\* whatever follows that line, and is rejected when no line is one.
C19_LastWellFormedRecord ==
    ClosedWithZero =>
        LET records == RecordLines(py.stdout)
        IN  IF records = << >> THEN py.promise.kind = "rejected"
            ELSE py.promise = [kind |-> "resolved",
                               value |-> JSONparse(trim(records[Len(records)]))]

\* C20: when the invocation resolved with a record, the CombinedMetrics has
\* every RepositoryMetrics field with the walker's value, and a
\* pythonAnalysis whose four sub-scores are the record's, 0 for each one the
\* record lacks, and whose highlights are the record's, empty when it has
\* none.
C20_MergeKeepsAndDefaults ==
    (combinedMetrics # Nothing /\ py.promise.kind = "resolved") =>
        LET record == py.promise.value
        IN  /\ \A f \in RepositoryMetricsFields :
                 f \in DOMAIN combinedMetrics /\ combinedMetrics[f] = nodeMetrics[f]
            /\ \A s \in {"comments_score", "naming_score", "tests_score", "examples_score"} :
                 combinedMetrics.pythonAnalysis[s] =
                     IF s \in DOMAIN record THEN record[s] ELSE 0
            /\ combinedMetrics.pythonAnalysis.highlights =
                   IF "highlights" \in DOMAIN record THEN record.highlights ELSE << >>
            /\ "error" \notin DOMAIN combinedMetrics.pythonAnalysis

\* A record with naming_score and highlights only was merged over the
\* metrics of a walk that counted a file.
C20_Witness ==
    /\ pc = "done" /\ response.sent
    /\ py.promise = [kind |-> "resolved", value |-> JSONparse(PartialRecordText)]
    /\ nodeMetrics.totalFiles > 0
    /\ combinedMetrics.totalLines = nodeMetrics.totalLines
    /\ combinedMetrics.pythonAnalysis =
           [comments_score |-> 0, naming_score |-> 3, tests_score |-> 0,
            examples_score |-> 0, highlights |-> << "Has README", "Has README" >>]

\* The position of the first occurrence of text in list.
FirstAt(list, text) == Least({i \in 1..Len(list) : list[i] = text})

\* C21: when the invocation resolved with a record, combinedHighlights
\* holds each distinct string of the walker's highlights followed by the
\* record's exactly once, in the order of their first occurrences there, and
\* no other string.
C21_HighlightsFirstOccurrences ==
    (combinedMetrics # Nothing /\ py.promise.kind = "resolved") =>
        LET record == py.promise.value
            given  == (IF "highlights" \in DOMAIN nodeMetrics
                       THEN nodeMetrics.highlights ELSE << >>)
                      \o (IF "highlights" \in DOMAIN record
                          THEN record.highlights ELSE << >>)
            kept   == combinedMetrics.combinedHighlights
        IN  /\ \A i, j \in 1..Len(kept) : i # j => kept[i] # kept[j]
            /\ {kept[i] : i \in 1..Len(kept)} = {given[i] : i \in 1..Len(given)}
            /\ \A i, j \in 1..Len(kept) :
                 i < j => FirstAt(given, kept[i]) < FirstAt(given, kept[j])

\* The record's highlights named "Has README" twice; it was kept once.
C21_Witness ==
    /\ combinedMetrics # Nothing /\ py.promise.kind = "resolved"
    /\ "highlights" \in DOMAIN py.promise.value
    /\ py.promise.value.highlights = << "Has README", "Has README" >>
    /\ combinedMetrics.combinedHighlights = << "Has README" >>

\* C22: every CombinedMetrics the merger returns, for a record and for an
\* error marker alike, has a combinedHighlights list next to pythonAnalysis
\* and the combined flag.
C22_AlwaysCombinedHighlights ==
    combinedMetrics # Nothing =>
        {"pythonAnalysis", "combined", "combinedHighlights"} \subseteq DOMAIN combinedMetrics

\* The step in which analyzeRepository calls mergeMetrics.
Merged == pc = "python" /\ pc' = "cleanup"

\* C23: the merge leaves both of its arguments as they were: the walker's
\* RepositoryMetrics and the settled result of the analyzer invocation are
\* the same after the step as before it.
C23_MergeLeavesArguments ==
    [][Merged => (nodeMetrics' = nodeMetrics /\ py' = py)]_vars

\* A merge has produced a value with the fields it adds, and the walker's
\* metrics still have none of them.
C23_Witness ==
    /\ combinedMetrics # Nothing /\ nodeMetrics # Nothing
    /\ {"pythonAnalysis", "combined"} \subseteq DOMAIN combinedMetrics
    /\ {"pythonAnalysis", "combined"} \cap DOMAIN nodeMetrics = {}
    /\ py.promise.kind = "resolved"

\* The iteration just taken handed a regular file to analyzeFile.
FileVisited == Visited /\ walk'.item.did \in {"read", "read failed", "not text"}

\* How many files fileTypes counts under extension ext, and under all of them.
TypeCount(fileTypes, ext) == IF ext \in DOMAIN fileTypes THEN fileTypes[ext] ELSE 0

RECURSIVE TypeSumOver(_, _)
TypeSumOver(fileTypes, exts) ==
    IF exts = {} THEN 0
    ELSE LET ext == CHOOSE x \in exts : TRUE
         IN  fileTypes[ext] + TypeSumOver(fileTypes, exts \ {ext})

TypeSum(fileTypes) == TypeSumOver(fileTypes, DOMAIN fileTypes)

\* C24: an iteration on a regular file, text or not, raises hasReadme when
\* its name starts with "readme" in any case, raises hasTests when the test
\* check matches, and adds exactly one to the fileTypes count of its
\* lower-cased extension and to no other; on a file that is not text nothing
\* else changes.  The sum of the fileTypes counts starts at zero and grows by
\* one exactly in the iterations on regular files that have an extension.
C24_EveryFileTyped ==
    /\ TypeSum(stats.fileTypes) = 0
    /\ [][/\ FileVisited =>
               LET name == walk'.item.name
                   ext  == toLowerCase(extname(name))
                   exts == DOMAIN stats.fileTypes \cup DOMAIN stats'.fileTypes \cup {ext}
               IN  /\ stats'.hasReadme =
                        (stats.hasReadme \/ SubSeq(toLowerCase(name), 1, 6) = "readme")
                   /\ stats'.hasTests =
                        (stats.hasTests \/ isTestFile(name, walk'.item.dir \o "/" \o name))
                   /\ \A x \in exts \ {""} :
                        TypeCount(stats'.fileTypes, x) =
                            TypeCount(stats.fileTypes, x) + (IF x = ext THEN 1 ELSE 0)
                   /\ "" \notin DOMAIN stats'.fileTypes
                   /\ TypeSum(stats'.fileTypes) =
                        TypeSum(stats.fileTypes) + (IF ext # "" THEN 1 ELSE 0)
                   /\ walk'.item.did = "not text" =>
                        \A f \in ContentFields : stats'[f] = stats[f]
          /\ ~FileVisited => TypeSum(stats'.fileTypes) = TypeSum(stats.fileTypes)]_vars

\* The walk has just passed a test-named image after one text file: the flag
\* is up, each extension is counted once and only the text file was read.
C24_Witness ==
    /\ pc = "walking" /\ walk.item # Nothing
    /\ walk.item.name = "spec.svg" /\ walk.item.did = "not text"
    /\ stats.hasTests /\ ~stats.hasReadme
    /\ TypeCount(stats.fileTypes, ".svg") = 1 /\ TypeCount(stats.fileTypes, ".js") = 1
    /\ stats.totalFiles = 1

\* The characters of s that are not white space.
NonBlankCount(s) == Cardinality({i \in 1..Len(s) : ~IsSpace(CharAt(s, i))})

\* The first 50 lines of a content, cut after 2000 characters and marked
\* when cut, tabulated over the files of the third repository.
Excerpt(content) ==
    LET breaks == {j \in 1..Len(content) : CharAt(content, j) = "\n"}
        joined == IF Cardinality(breaks) < 50 THEN content
                  ELSE SubSeq(content, 1, Nth(breaks, 50) - 1)
    IN  IF Len(joined) > 2000 THEN SubSeq(joined, 1, 2000) \o "..." ELSE joined

Excerpts ==
    [c \in {e.content : e \in LongEntries} |->
        [sample  |-> Excerpt(c),
         trimmed |-> Len(trim(Excerpt(c))),
         lines   |-> Cardinality({j \in 1..Len(c) : CharAt(c, j) = "\n"}) + 1]]

\* The length of a sample without its leading and trailing white space.
TrimmedLength(sample) ==
    IF \E c \in DOMAIN Excerpts : Excerpts[c].sample = sample
    THEN Excerpts[CHOOSE c \in DOMAIN Excerpts : Excerpts[c].sample = sample].trimmed
    ELSE Len(trim(sample))

\* C25, as first stated: every kept sample has more than 100 characters that
\* are not white space.
C25_SamplesNonBlank ==
    \A i \in 1..Len(stats.codeSamples) : NonBlankCount(stats.codeSamples[i].sample) > 100

\* C25: the accumulator never holds more than 20 samples and the returned
\* metrics hold its first 10 at most; an iteration appends one sample, after
\* those already kept, exactly when it read a main-code file whose excerpt is
\* longer than 100 characters once leading and trailing white space is
\* trimmed and fewer than 20 samples were kept, and changes nothing otherwise;
\* every kept sample is at most 2000 characters of the file, followed by
\* "..." only when it was cut there.
C25_SamplesBounded ==
    /\ [](/\ Len(stats.codeSamples) <= 20
          /\ \A i \in 1..Len(stats.codeSamples) :
               LET kept == stats.codeSamples[i]
               IN  /\ kept.extension \in mainCodeExtensions
                   /\ TrimmedLength(kept.sample) > 100
                   /\ \/ Len(kept.sample) <= 2000
                      \/ /\ Len(kept.sample) = 2003
                         /\ SubSeq(kept.sample, 2001, 2003) = "..."
          /\ nodeMetrics # Nothing =>
               /\ Len(nodeMetrics.codeSamples) <= 10
               /\ nodeMetrics.codeSamples =
                    SubSeq(stats.codeSamples, 1, Min(10, Len(stats.codeSamples))))
    /\ [][/\ FileVisited =>
               LET name    == walk'.item.name
                   ext     == toLowerCase(extname(name))
                   content == walk'.item.content
                   excerpt == Excerpts[content]
               IN  stats'.codeSamples =
                     IF /\ walk'.item.did = "read"
                        /\ ext \in mainCodeExtensions
                        /\ Len(stats.codeSamples) < 20
                        /\ excerpt.trimmed > 100
                     THEN Append(stats.codeSamples,
                                 [file |-> name, extension |-> ext,
                                  sample |-> excerpt.sample, lines |-> excerpt.lines])
                     ELSE stats.codeSamples
          /\ ~FileVisited => stats'.codeSamples = stats.codeSamples]_vars

\* The twentieth sample kept was the cut one of long.js, a file read after
\* it was not kept, and the returned metrics hold ten samples.
C25_Witness ==
    /\ nodeMetrics # Nothing /\ Len(nodeMetrics.codeSamples) = 10
    /\ stats.totalFiles = 21 /\ Len(stats.codeSamples) = 20
    /\ stats.codeSamples[20].file = "long.js"
    /\ Len(stats.codeSamples[20].sample) = 2003

\* One of the callbacks of the analyzer invocation has just run: the close
\* or error listener, or the timer.
CalledBack == py.promise.kind # "none" /\ py' # py

\* C26: the close, error and timeout callbacks of one invocation may run one
\* after another; the first to run settles the invocation, and a callback
\* that runs after it is settled leaves the settled result as it is and
\* changes nothing of what the request has computed or answered.
C26_FirstCallbackDecides ==
    [][CalledBack =>
         /\ py.promise.kind = "pending" => py'.promise.kind \in {"resolved", "rejected"}
         /\ py.promise.kind # "pending" => py'.promise = py.promise
         /\ UNCHANGED << pc, nodeMetrics, combinedMetrics, outcome, scoring, response >>]_vars

\* The process closed with a record, and the timer, never cleared, fired
\* afterwards and killed: the invocation is still resolved.
C26_Witness ==
    /\ py.proc = "closed" /\ py.code = "0" /\ py.timer = "fired" /\ py.killed
    /\ py.promise.kind = "resolved"

\* C27: at every point of a walk commentLines <= totalLines, totalFiles <=
\* totalLines, each of the four pattern counters <= totalFiles, and
\* totalFiles <= the sum of the fileTypes counts; no iteration lowers
\* hasReadme or hasTests; and the commentsRatio of the returned metrics lies
\* between 0 and 1 (0 and 100 hundredths).
C27_AccumulatorOrdered ==
    /\ [](/\ stats.commentLines <= stats.totalLines
          /\ stats.totalFiles <= stats.totalLines
          /\ (stats.totalLines = 0) <=> (stats.totalFiles = 0)
          /\ \A c \in Counters : stats.aiPatterns[c] <= stats.totalFiles
          /\ stats.totalFiles <= TypeSum(stats.fileTypes)
          /\ nodeMetrics # Nothing =>
               (0 <= nodeMetrics.commentsRatio /\ nodeMetrics.commentsRatio <= 100))
    /\ [][/\ stats.hasReadme => stats'.hasReadme
          /\ stats.hasTests => stats'.hasTests]_vars

\* A walk over an image and a file of two comment lines: one counted file,
\* two lines, both comments, two typed files and a ratio of 1.
C27_Witness ==
    /\ nodeMetrics # Nothing /\ nodeMetrics.commentsRatio = 100
    /\ stats.totalFiles = 1 /\ stats.totalLines = 2 /\ stats.commentLines = 2
    /\ TypeSum(stats.fileTypes) = 2

\* C28: an iteration in which fs.stat fails on an entry moves on to the next
\* entry of the same directory, as an iteration on any other entry does.
C28_StatFailureIsLocal ==
    [][(Visited /\ walk'.item.did = "stat failed") => MovedOn]_vars

\* The path of the entry just handled, from the scratch path down.
RelativePath == SubSeq(walk'.item.dir \o "/" \o walk'.item.name,
                       Len(tempRepoPath) + 2,
                       Len(walk'.item.dir) + 1 + Len(walk'.item.name))

\* C29: an iteration on a regular file raises hasTests exactly when the
\* name of the file, or its path from the scratch path down, matches a test
\* pattern, whatever the scratch path is.
C29_TestsByRepositoryNames ==
    [][FileVisited =>
         (stats'.hasTests <=>
            (stats.hasTests \/ isTestFile(walk'.item.name, RelativePath)))]_vars

\* C30: a successful response reports, as metadata.branch, the branch whose
\* clone succeeded.
C30_ReportedBranchIsFetched ==
    (response.sent /\ response.status = 200) =>
        response.body.metadata.branch = usedBranch
====
